---- MODULE Spec2Model ----
(***************************************************************************)
(* Model of the MAB AI Strategies Twitter SEO agent: the daily schedule    *)
(* (SchedulerService), the publish driver (PosterAgent, runPosting) and    *)
(* the candidate collector (ScraperAgent, runScrapingAndFiltering).        *)
(*                                                                         *)
(* Conventions                                                             *)
(*   - a nullable JS value is a sequence of length 0 (null/undefined) or 1 *)
(*     (the value): None, Some(x);                                         *)
(*   - a Date is a record [y, m, d, h] in UTC, at hour granularity; the    *)
(*     process-local timezone is UTC (Cloudflare Workers);                 *)
(*   - a Map is a function whose DOMAIN is the set of keys.                *)
(***************************************************************************)
EXTENDS Integers, Sequences, FiniteSets, TLC

VARIABLES
    now,          \* the wall clock, a Date
    scheduler,    \* a SchedulerService: [queue, postedToday]
    lastOp,       \* the last SchedulerService call: [op, arg]
    dryRun,       \* config.app.dryRun
    sheet,        \* the articles in the rows of today's Headlines sheet
    agents,       \* the PosterAgent instances created so far: their schedulers
    inv,          \* the publish invocations: position, locals and result
    publishCalls, \* twitter.postTweet calls made so far, per post id
    everPosted,   \* the post ids markPosted has been called for, by any agent
    scrape,       \* the scrapeCategory call in flight: position and locals
    lastScrape,   \* the scrapeCategory call that ended last: calls and outcome
    srun,         \* runScrapingAndFiltering and ScraperAgent.run: position, results
    newsapi,      \* the NewsApiService: its request count, the searchNews in flight
    call          \* a call of a pure function: [fn, in, out]

None == << >>
Some(x) == << x >>

(***************************************************************************)
(* Calendar arithmetic behind JS Date, for the years the model visits.     *)
(***************************************************************************)
IsLeap(y) == (y % 4 = 0 /\ y % 100 # 0) \/ y % 400 = 0

DaysInMonth(y, m) ==
    IF m = 2 THEN (IF IsLeap(y) THEN 29 ELSE 28)
    ELSE IF m \in {4, 6, 9, 11} THEN 30 ELSE 31

RECURSIVE DaysBeforeMonth(_, _)
DaysBeforeMonth(y, m) ==
    IF m = 1 THEN 0 ELSE DaysBeforeMonth(y, m - 1) + DaysInMonth(y, m - 1)

\* 1 for January 1
DayOfYear(y, m, d) == DaysBeforeMonth(y, m) + d

\* Date.getUTCDay of January 1 of year y: 0 is Sunday
Jan1Weekday(y) ==
    (1 + 5 * ((y - 1) % 4) + 4 * ((y - 1) % 100) + 6 * ((y - 1) % 400)) % 7

\* Date.getUTCDay / Date.getDay
Weekday(y, m, d) == (Jan1Weekday(y) + DayOfYear(y, m, d) - 1) % 7

\* the hour of the year, the order of two Dates of one year
HourOfYear(t) == DayOfYear(t.y, t.m, t.d) * 24 + t.h

PrevDay(t) ==
    IF t.d > 1 THEN [t EXCEPT !.d = t.d - 1]
    ELSE IF t.m > 1 THEN [t EXCEPT !.m = t.m - 1, !.d = DaysInMonth(t.y, t.m - 1)]
    ELSE [t EXCEPT !.y = t.y - 1, !.m = 12, !.d = 31]

NextDay(t) ==
    IF t.d < DaysInMonth(t.y, t.m) THEN [t EXCEPT !.d = t.d + 1]
    ELSE IF t.m < 12 THEN [t EXCEPT !.m = t.m + 1, !.d = 1]
    ELSE [t EXCEPT !.y = t.y + 1, !.m = 1, !.d = 1]

\* new Date(t.getTime() - k hours), 0 <= k <= 24
MinusHours(t, k) ==
    IF t.h - k >= 0 THEN [t EXCEPT !.h = t.h - k]
    ELSE [PrevDay(t) EXCEPT !.h = t.h - k + 24]

\* String(n).padStart(2, '0')
Pad2(n) == IF n < 10 THEN "0" \o ToString(n) ELSE ToString(n)

(***************************************************************************)
(* src/utils/date-utils.js                                                 *)
(***************************************************************************)
\* isEasternDST of date-utils: second Sunday of March 07:00 UTC up to the
\* first Sunday of November 06:00 UTC
isEasternDST_utils(date) ==
    LET daysToSecondSunday == ((7 - Weekday(date.y, 3, 1)) % 7) + 7
        dstStart == [y |-> date.y, m |-> 3, d |-> 1 + daysToSecondSunday, h |-> 7]
        daysToFirstSunday == (7 - Weekday(date.y, 11, 1)) % 7
        dstEnd == [y |-> date.y, m |-> 11, d |-> 1 + daysToFirstSunday, h |-> 6]
    IN  HourOfYear(date) >= HourOfYear(dstStart) /\ HourOfYear(date) < HourOfYear(dstEnd)

\* -5 (EST) or -4 (EDT), as the number of hours to go back
getEasternOffset(date) == IF isEasternDST_utils(date) THEN 4 ELSE 5

utcToEastern(utcDate) == MinusHours(utcDate, getEasternOffset(utcDate))

\* Monday to Friday of the Eastern calendar
isWeekday(date) ==
    LET eastern == utcToEastern(date)
        day == Weekday(eastern.y, eastern.m, eastern.d)
    IN  day >= 1 /\ day <= 5

\* eastern.toISOString().split('T')[0]
getTodayString(date) ==
    LET eastern == utcToEastern(date)
    IN  ToString(eastern.y) \o "-" \o Pad2(eastern.m) \o "-" \o Pad2(eastern.d)

(***************************************************************************)
(* src/constants/posting-schedule.js (src/unnamed/part_002)                *)
(***************************************************************************)
Slot(hour, utcHour, utcHourDST, postNumber, categoryId, categoryRank, includeQuote) ==
    [hour |-> hour, utcHour |-> utcHour, utcHourDST |-> utcHourDST,
     postNumber |-> postNumber, categoryId |-> categoryId,
     categoryRank |-> categoryRank, includeQuote |-> includeQuote]

POSTING_SCHEDULE == <<
    Slot( 9, 14, 13, 1, "ai-providers", 1, FALSE),
    Slot(10, 15, 14, 2, "business-ai",  1, FALSE),
    Slot(11, 16, 15, 3, "ai-safety",    1, TRUE),
    Slot(12, 17, 16, 4, "ai-providers", 2, FALSE),
    Slot(13, 18, 17, 5, "business-ai",  2, FALSE),
    Slot(14, 19, 18, 6, "ai-safety",    2, TRUE),
    Slot(15, 20, 19, 7, "ai-providers", 3, FALSE),
    Slot(16, 21, 20, 8, "business-ai",  3, FALSE),
    Slot(17, 22, 21, 9, "ai-safety",    3, TRUE) >>

\* isEasternDST of posting-schedule: local midnights, and 8 + ... + 7 as the
\* day of March
isEasternDST(date) ==
    LET marchFirstDay == Weekday(date.y, 3, 1)
        dstStart == [y |-> date.y, m |-> 3, d |-> 8 + ((7 - marchFirstDay) % 7) + 7, h |-> 0]
        novFirstDay == Weekday(date.y, 11, 1)
        dstEnd == [y |-> date.y, m |-> 11, d |-> 1 + ((7 - novFirstDay) % 7), h |-> 0]
    IN  HourOfYear(date) >= HourOfYear(dstStart) /\ HourOfYear(date) < HourOfYear(dstEnd)

\* the mutant looks at the standard-time column whatever the flag
getTimeSlotForUTCHour_Standard(utcHour, isDST) ==
    LET hits == { i \in 1..Len(POSTING_SCHEDULE) : POSTING_SCHEDULE[i].utcHour = utcHour }
    IN  IF hits = {} THEN None
        ELSE Some(POSTING_SCHEDULE[CHOOSE i \in hits : \A j \in hits : i <= j])

\* POSTING_SCHEDULE.find(...) || null
getTimeSlotForUTCHour(utcHour, isDST) ==
    LET hits == { i \in 1..Len(POSTING_SCHEDULE) :
                    IF isDST THEN POSTING_SCHEDULE[i].utcHourDST = utcHour
                             ELSE POSTING_SCHEDULE[i].utcHour = utcHour }
    IN  IF hits = {} THEN None
        ELSE Some(POSTING_SCHEDULE[CHOOSE i \in hits : \A j \in hits : i <= j])

(***************************************************************************)
(* src/constants/mab-quotes.js (src/unnamed/part_001)                      *)
(***************************************************************************)
\* the ids of MAB_QUOTES, in order
MAB_QUOTES == << 1, 2, 3, 4, 5 >>

getQuoteForDay_ZeroBased(date) ==
    LET dayOfYear == HourOfYear(date) \div 24
        quoteIndex == dayOfYear % Len(MAB_QUOTES)
    IN  MAB_QUOTES[quoteIndex + 1]

\* the id of the quote of the day; JS arrays are 0-indexed.  start is the
\* midnight that begins December 31 of the year before, so diff is
\* HourOfYear(date) hours and dayOfYear its whole days
getQuoteForDay(date) ==
    LET dayOfYear == HourOfYear(date) \div 24
        quoteIndex == (dayOfYear - 1) % Len(MAB_QUOTES)
    IN  MAB_QUOTES[quoteIndex + 1]

(***************************************************************************)
(* src/services/scheduler.js: SchedulerService                             *)
(*                                                                         *)
(* A ScheduledPost keeps the fields the operations read or write; utcHour, *)
(* tweetText and hashtags are written once and never read by them.  An     *)
(* article is [url, category, categoryRank].                               *)
(***************************************************************************)
EmptyMap == [k \in {} |-> None]

\* Map.set
MapSet(map, key, value) ==
    [k \in DOMAIN map \cup {key} |-> IF k = key THEN value ELSE map[k]]

\* `${today}-${slot.postNumber}`
PostId_NoNumber(today, postNumber) == today
PostId(today, postNumber) == today \o "-" \o ToString(postNumber)

\* slot.includeQuote ? quoteOfDay.id : null
SlotQuoteId_Always(slot, quoteOfDay) == Some(quoteOfDay)
SlotQuoteId(slot, quoteOfDay) == IF slot.includeQuote THEN Some(quoteOfDay) ELSE None

NewPost(slot, today, quoteOfDay) ==
    [id |-> PostId(today, slot.postNumber),
     postNumber |-> slot.postNumber,
     hour |-> slot.hour,
     categoryId |-> slot.categoryId,
     categoryRank |-> slot.categoryRank,
     includeQuote |-> slot.includeQuote,
     quoteId |-> SlotQuoteId(slot, quoteOfDay),
     article |-> None,
     status |-> "pending",
     tweetId |-> None,
     postedAt |-> None,
     error |-> None]

\* the loop over POSTING_SCHEDULE, from slot i on
RECURSIVE InitSlots(_, _, _, _)
InitSlots(queue, i, today, quoteOfDay) ==
    IF i > Len(POSTING_SCHEDULE) THEN queue
    ELSE LET post == NewPost(POSTING_SCHEDULE[i], today, quoteOfDay)
         IN  InitSlots(MapSet(queue, post.id, post), i + 1, today, quoteOfDay)

NewScheduler == [queue |-> EmptyMap, postedToday |-> {}]

initializeDailySchedule(s, date) ==
    [s EXCEPT !.queue = InitSlots(s.queue, 1, getTodayString(date), getQuoteForDay(date))]

\* articlesByCategory[categoryId] || []
ArticlesOfCategory(rankedArticles, categoryId) ==
    SelectSeq(rankedArticles, LAMBDA a : a.category = categoryId)

\* categoryArticles[post.categoryRank - 1]
ArticleForPost(rankedArticles, post) ==
    LET categoryArticles == ArticlesOfCategory(rankedArticles, post.categoryId)
    IN  IF post.categoryRank <= Len(categoryArticles)
        THEN Some(categoryArticles[post.categoryRank])
        ELSE None

assignArticlesToSchedule(s, rankedArticles) ==
    [s EXCEPT !.queue =
        [id \in DOMAIN s.queue |->
            LET post == s.queue[id]
                article == ArticleForPost(rankedArticles, post)
            IN  IF article # None
                THEN [post EXCEPT !.article = article, !.status = "ready"]
                ELSE [post EXCEPT !.status = "no-article"]]]

\* a markPosted that leaves postedToday alone
markPosted_StatusOnly(s, postId, tweetId, date) ==
    IF postId \in DOMAIN s.queue
    THEN [s EXCEPT !.queue[postId].status = "posted"]
    ELSE s

markPosted(s, postId, tweetId, date) ==
    IF postId \in DOMAIN s.queue
    THEN [queue |-> [s.queue EXCEPT ![postId] =
                        [@ EXCEPT !.status = "posted",
                                  !.tweetId = Some(tweetId),
                                  !.postedAt = Some(date)]],
          postedToday |-> s.postedToday \cup {postId}]
    ELSE s

markFailed(s, postId, error) ==
    IF postId \in DOMAIN s.queue
    THEN [s EXCEPT !.queue[postId] = [@ EXCEPT !.status = "failed", !.error = Some(error)]]
    ELSE s

\* the id of the post of the current time slot (the code returns the live
\* object of the queue), or None: no slot at this hour, no such post, or
\* the post is in postedToday
getCurrentPost(s, date) ==
    LET isDST == isEasternDST(date)
        timeSlot == getTimeSlotForUTCHour(date.h, isDST)
    IN  IF timeSlot = None THEN None
        ELSE LET postId == PostId(getTodayString(date), timeSlot[1].postNumber)
             IN  IF postId \notin DOMAIN s.queue THEN None
                 ELSE IF postId \in s.postedToday THEN None
                 ELSE Some(postId)

clearSchedule(s) == [queue |-> EmptyMap, postedToday |-> {}]

\* the posts with the article cut to headline, url and source; the list is
\* in Map order and holds each id once, so it is modelled as the Map
exportSchedule(s) ==
    [id \in DOMAIN s.queue |->
        LET post == s.queue[id]
        IN  IF post.article = None THEN post
            ELSE [post EXCEPT !.article =
                    Some([url |-> post.article[1].url, category |-> "", categoryRank |-> 0])]]

importSchedule(s, schedule) ==
    [queue |-> schedule,
     postedToday |-> s.postedToday \cup
                        { id \in DOMAIN schedule : schedule[id].status = "posted" }]

(***************************************************************************)
(* SpecSched: one SchedulerService under any sequence of its operations,   *)
(* at one instant of a civic day (the operations read the clock for the    *)
(* civic date, the quote of the day and the posted-at stamp only).         *)
(***************************************************************************)
\* the Selected Articles a caller hands over are drawn from the first
\* MaxArticles of ARTICLES
MaxArticles == 2
\* markPosted and markFailed are called for post numbers 1..MaxMarked
MaxMarked == 1

\* weekday instants, one in standard time and one in daylight time
StartInstants ==
    { [y |-> 2026, m |-> 1, d |-> 5, h |-> 13],
      [y |-> 2026, m |-> 7, d |-> 6, h |-> 13] }

Article(url, category, categoryRank) ==
    [url |-> url, category |-> category, categoryRank |-> categoryRank]

\* the nine Selected Articles of a full day, in selectTopArticles order
ARTICLES == <<
    Article("u1", "ai-providers", 1),
    Article("u2", "ai-providers", 2),
    Article("u3", "ai-providers", 3),
    Article("u4", "business-ai", 1),
    Article("u5", "business-ai", 2),
    Article("u6", "business-ai", 3),
    Article("u7", "ai-safety", 1),
    Article("u8", "ai-safety", 2),
    Article("u9", "ai-safety", 3) >>

Min(a, b) == IF a < b THEN a ELSE b

ArticlePool == { ARTICLES[i] : i \in 1..Min(MaxArticles, Len(ARTICLES)) }

\* a selection as selectTopArticles makes it: per category the ranks 1..k
IsSelection(S) ==
    \A a \in S : \A r \in 1..(a.categoryRank - 1) :
        \E b \in S : b.category = a.category /\ b.categoryRank = r

\* every ordering of every selection from the pool
ArticleLists ==
    UNION { { f \in [1..Cardinality(S) -> S] : \A i, j \in 1..Cardinality(S) : f[i] = f[j] => i = j }
            : S \in { T \in SUBSET ArticlePool : IsSelection(T) } }

MarkedIds == { PostId(getTodayString(now), n) : n \in 1..MaxMarked }

schedVars == << now, scheduler, lastOp >>
posterVars == << dryRun, sheet, agents, inv, publishCalls, everPosted >>
scraperVars == << scrape, lastScrape, srun, newsapi >>
pureVars == << call >>
vars == << schedVars, posterVars, scraperVars, pureVars >>

\* the variables of the publish driver, at rest
PosterIdle ==
    /\ dryRun = FALSE
    /\ sheet = << >>
    /\ agents = << >>
    /\ inv = << >>
    /\ publishCalls = EmptyMap
    /\ everPosted = {}

\* scrapeCategory's result object at its creation; null is ""
NewResult(categoryId) ==
    [categoryId |-> categoryId, success |-> FALSE, articles |-> << >>,
     apiUsed |-> "", error |-> "", perplexityError |-> "", newsApiError |-> ""]

\* no scrapeCategory call in flight
IdleScrape ==
    [pc |-> "idle", attempt |-> 0, calls |-> << >>,
     perplexityArticles |-> None, result |-> NewResult("")]

\* no scrapeCategory call has ended
NoScrape == [returned |-> "none", calls |-> << >>, result |-> NewResult("")]

\* ScraperAgent.run's results object at its creation, and the locals of
\* runScrapingAndFiltering
IdleRun ==
    [pc |-> "idle", next |-> 0, categories |-> EmptyMap, totalArticles |-> 0,
     errors |-> << >>, success |-> TRUE, filterInput |-> None,
     filtering |-> "none"]

\* no pure function called
NoCall == [fn |-> "none", in |-> << >>, out |-> << >>]

PureIdle == call = NoCall

\* the NewsApiService after its constructor (requestCount = 0), no
\* searchNews called: the query searchNews is at, allArticles, the requests
\* made when searchNews was called, the HTTP requests it has sent, how it
\* ended and what it returned
NewNewsApi ==
    [requestCount |-> 0, pc |-> "idle", searches |-> 0, categoryId |-> "", query |-> 0,
     allArticles |-> << >>, countAtStart |-> 0, sent |-> 0,
     ended |-> "none", returned |-> << >>]

\* the variables of the collector, at rest
ScraperIdle ==
    /\ scrape = IdleScrape
    /\ lastScrape = NoScrape
    /\ srun = IdleRun
    /\ newsapi = NewNewsApi

\* the call just made, and whether the call before it was the same
\* operation (repeat = 2) or not (repeat = 1)
Op(op, articles, postId) ==
    [op |-> op, articles |-> articles, postId |-> postId,
     repeat |-> IF lastOp.op = op THEN 2 ELSE 1]

SchedInit ==
    /\ now \in StartInstants
    /\ scheduler = NewScheduler
    /\ lastOp = [op |-> "new", articles |-> << >>, postId |-> "", repeat |-> 1]
    /\ PosterIdle
    /\ ScraperIdle
    /\ PureIdle

SchedInitialize ==
    /\ scheduler' = initializeDailySchedule(scheduler, now)
    /\ lastOp' = Op("initializeDailySchedule", << >>, "")
    /\ UNCHANGED << now, posterVars, scraperVars, pureVars >>

SchedAssign ==
    \E rankedArticles \in ArticleLists :
        /\ scheduler' = assignArticlesToSchedule(scheduler, rankedArticles)
        /\ lastOp' = Op("assignArticlesToSchedule", rankedArticles, "")
        /\ UNCHANGED << now, posterVars, scraperVars, pureVars >>

SchedMarkPosted ==
    \E postId \in MarkedIds :
        /\ scheduler' = markPosted(scheduler, postId, "tweet-1", now)
        /\ lastOp' = Op("markPosted", << >>, postId)
        /\ UNCHANGED << now, posterVars, scraperVars, pureVars >>

SchedMarkFailed ==
    \E postId \in MarkedIds :
        /\ scheduler' = markFailed(scheduler, postId, "error-1")
        /\ lastOp' = Op("markFailed", << >>, postId)
        /\ UNCHANGED << now, posterVars, scraperVars, pureVars >>

\* the schedule imported is one a fresh scheduler exports after
\* initializeDailySchedule and assignArticlesToSchedule (runPosting), or
\* this scheduler's own export
SchedImport ==
    \E schedule \in
        { exportSchedule(assignArticlesToSchedule(
              initializeDailySchedule(NewScheduler, now), l)) : l \in ArticleLists }
        \cup { exportSchedule(scheduler) } :
        /\ scheduler' = importSchedule(scheduler, schedule)
        /\ lastOp' = Op("importSchedule", << >>, "")
        /\ UNCHANGED << now, posterVars, scraperVars, pureVars >>

SchedClear ==
    /\ scheduler' = clearSchedule(scheduler)
    /\ lastOp' = Op("clearSchedule", << >>, "")
    /\ UNCHANGED << now, posterVars, scraperVars, pureVars >>

SchedNext ==
    \/ SchedInitialize
    \/ SchedAssign
    \/ SchedMarkPosted
    \/ SchedMarkFailed
    \/ SchedImport
    \/ SchedClear

SpecSched == SchedInit /\ [][SchedNext]_vars

(***************************************************************************)
(* Claims about SchedulerService                                           *)
(***************************************************************************)
Queue == scheduler.queue

\* the nine ids of a civic date, written out
NineIds(today) == { today \o "-" \o n : n \in {"1", "2", "3", "4", "5", "6", "7", "8", "9"} }

LegalTransitions ==
    { << "pending", "ready" >>, << "pending", "no-article" >>,
      << "ready", "posted" >>, << "ready", "failed" >>, << "failed", "ready" >> }

\* C3: every status change of a Scheduled Post is pending->ready,
\* pending->no-article, ready->posted, ready->failed or failed->ready, so a
\* post in posted or no-article never changes status again that day.
C3_OnlyLegalTransitions ==
    [][\A id \in DOMAIN scheduler.queue \cap DOMAIN scheduler'.queue :
          \/ scheduler'.queue[id].status = scheduler.queue[id].status
          \/ << scheduler.queue[id].status, scheduler'.queue[id].status >> \in LegalTransitions
      ]_vars

\* C8: after assignArticlesToSchedule(rankedArticles) every slot is bound to
\* the article whose category and categoryRank equal the slot's and is ready;
\* a slot with no such article has no bound article and is no-article.
C8_BoundByCategoryAndRank ==
    lastOp.op = "assignArticlesToSchedule" =>
        \A id \in DOMAIN Queue :
            LET post == Queue[id]
                hits == { i \in 1..Len(lastOp.articles) :
                            /\ lastOp.articles[i].category = post.categoryId
                            /\ lastOp.articles[i].categoryRank = post.categoryRank }
            IN  IF hits # {}
                THEN post.status = "ready" /\ \E i \in hits : post.article = Some(lastOp.articles[i])
                ELSE post.status = "no-article" /\ post.article = None

\* C9: initializeDailySchedule on an empty scheduler creates exactly nine
\* posts, one per Time Slot, with id = civic date-post number, status
\* pending, no article, and quoteId the id of the quote of the day exactly
\* for post numbers 3, 6 and 9 and null for the others.
C9_NineFreshPosts ==
    [][(scheduler.queue = EmptyMap /\ lastOp'.op = "initializeDailySchedule") =>
          LET today == getTodayString(now)
              queue == scheduler'.queue
          IN  /\ DOMAIN queue = NineIds(today)
              /\ Cardinality(DOMAIN queue) = 9
              /\ \A n \in 1..9 :
                    LET post == queue[today \o "-" \o ToString(n)]
                    IN  /\ post.id = today \o "-" \o ToString(n)
                        /\ post.postNumber = n
                        /\ post.categoryId = POSTING_SCHEDULE[n].categoryId
                        /\ post.categoryRank = POSTING_SCHEDULE[n].categoryRank
                        /\ post.status = "pending"
                        /\ post.article = None
                        /\ post.quoteId = IF n \in {3, 6, 9}
                                          THEN Some(getQuoteForDay(now)) ELSE None
      ]_vars

\* initializeDailySchedule has run on an empty scheduler: nine pending posts
C9_Witness ==
    /\ lastOp.op = "initializeDailySchedule"
    /\ lastOp.repeat = 1
    /\ Cardinality(DOMAIN Queue) = 9
    /\ \A id \in DOMAIN Queue : Queue[id].status = "pending" /\ Queue[id].article = None
    /\ \E id \in DOMAIN Queue : Queue[id].quoteId # None

\* C10: after initializeDailySchedule has run twice for one civic date the
\* queue holds exactly the nine posts of that date, each id once.
C10_InitializeTwice ==
    (lastOp.op = "initializeDailySchedule" /\ lastOp.repeat = 2) =>
        /\ DOMAIN Queue = NineIds(getTodayString(now))
        /\ Cardinality(DOMAIN Queue) = 9
        /\ Cardinality({ Queue[id].id : id \in DOMAIN Queue }) = 9
        /\ \A id \in DOMAIN Queue : Queue[id].id = id

\* the second of two initializeDailySchedule calls in a row has run
C10_Witness ==
    /\ lastOp.op = "initializeDailySchedule"
    /\ lastOp.repeat = 2
    /\ Cardinality(DOMAIN Queue) = 9


(***************************************************************************)
(* SpecPoster: the publish driver.  runPosting (src/index.js) builds a new *)
(* PosterAgent and a new SchedulerService on every call, from the cron     *)
(* handler or from POST /trigger/post; PosterAgent.run (src/agents/        *)
(* poster.js) is an async function, so an invocation is a sequence of      *)
(* steps, one per await, and invocations interleave at the awaits.  A step *)
(* is the code from one await's completion to the next await's start.      *)
(***************************************************************************)
\* the invocations (of runPosting or of PosterAgent.run) of one behaviour
MaxInvocations == 2
\* the hours the clock advances in one behaviour
MaxTicks == 1

\* what the Headlines sheet of the day holds: nothing, the nine Selected
\* Articles, or the Selected Articles of a day with a category missing
SheetContents ==
    { << >>, ARTICLES, SelectSeq(ARTICLES, LAMBDA a : a.category # "ai-providers") }

\* an invocation before it is started: result = { success: true, post:
\* null, error: null }
IdleInv ==
    [pc |-> "idle", via |-> "", local |-> NewScheduler, agent |-> 0,
     retryId |-> "", postId |-> "", context |-> "", hashtags |-> "", regenerated |-> FALSE,
     calledPublish |-> FALSE, postedAtStart |-> {}, failedAtStart |-> {},
     success |-> TRUE, error |-> "", message |-> "", tweetId |-> "",
     alert |-> "none"]

PosterInit ==
    /\ now \in StartInstants
    /\ scheduler = NewScheduler
    /\ lastOp = [op |-> "new", articles |-> << >>, postId |-> "", repeat |-> 1]
    /\ dryRun \in BOOLEAN
    /\ sheet \in SheetContents
    /\ agents = << >>
    /\ inv = [p \in 1..MaxInvocations |-> IdleInv]
    /\ publishCalls = EmptyMap
    /\ everPosted = {}
    /\ ScraperIdle
    /\ PureIdle

\* the post ids of the publish calls that have failed
FailedIds ==
    { inv[q].postId : q \in { q \in DOMAIN inv : inv[q].error = "postTweet failed" } }

\* invocations are started in the order of their numbers
CanStart(p) ==
    /\ inv[p].pc = "idle"
    /\ \A q \in 1..(p - 1) : inv[q].pc # "idle"

PublishCount(postId) ==
    IF postId \in DOMAIN publishCalls THEN publishCalls[postId] ELSE 0

\* PosterAgent.run up to its first await: resolve the current post and
\* check that it is ready
\* a run that does not look at the status of the post
RunBegin_NoCheck(r, s) ==
    LET post == getCurrentPost(s, now)
    IN  IF post = None
        THEN [r EXCEPT !.pc = "done", !.success = TRUE,
                       !.message = "No post scheduled"]
        ELSE [r EXCEPT !.pc = "summary", !.postId = post[1]]

RunBegin(r, s) ==
    LET post == getCurrentPost(s, now)
    IN  IF post = None
        THEN [r EXCEPT !.pc = "done", !.success = TRUE,
                       !.message = "No post scheduled"]
        ELSE IF s.queue[post[1]].status # "ready"
        THEN [r EXCEPT !.pc = "done", !.postId = post[1], !.success = FALSE,
                       !.error = "Post not ready: " \o s.queue[post[1]].status]
        ELSE [r EXCEPT !.pc = "summary", !.postId = post[1]]

\* runPosting up to its await of readSheet: a new PosterAgent, a new
\* SchedulerService with today's nine pending posts
StartRunPosting(p, via) ==
    /\ inv' = [inv EXCEPT ![p] =
                  [@ EXCEPT !.pc = "readSheet", !.via = via,
                            !.local = initializeDailySchedule(NewScheduler, now),
                            !.postedAtStart = everPosted,
                            !.failedAtStart = FailedIds]]
    /\ UNCHANGED << schedVars, scraperVars, pureVars, dryRun, sheet, agents, publishCalls, everPosted >>

\* the cron handler at minute 0 of an hour: posting on a weekday at the
\* hour of a time slot
Scheduled(p) ==
    /\ CanStart(p)
    /\ isWeekday(now)
    /\ getTimeSlotForUTCHour(now.h, isEasternDST_utils(now)) # None
    /\ StartRunPosting(p, "cron")

\* POST /trigger/post
TriggerPost(p) ==
    /\ CanStart(p)
    /\ StartRunPosting(p, "http")


\* runPosting after readSheet: the rows, if the read succeeded and there
\* is a row below the header, are assigned; the schedule is exported and
\* imported into the new PosterAgent, whose run starts
ReadSheet(p) ==
    /\ inv[p].pc = "readSheet"
    /\ \E readOk \in BOOLEAN :
        LET local == IF readOk /\ Len(sheet) > 0
                     THEN assignArticlesToSchedule(inv[p].local, sheet)
                     ELSE inv[p].local
            s == importSchedule(NewScheduler, exportSchedule(local))
        IN  /\ agents' = Append(agents, s)
            /\ inv' = [inv EXCEPT ![p] =
                          RunBegin([@ EXCEPT !.local = NewScheduler,
                                             !.agent = Len(agents) + 1], s)]
    /\ UNCHANGED << schedVars, scraperVars, pureVars, dryRun, sheet, publishCalls, everPosted >>

\* PosterAgent.run called again on an agent that exists
AgentRun(p, a) ==
    /\ CanStart(p)
    /\ inv' = [inv EXCEPT ![p] =
                  RunBegin([@ EXCEPT !.via = "run", !.agent = a,
                                     !.postedAtStart = everPosted,
                                     !.failedAtStart = FailedIds], agents[a])]
    /\ UNCHANGED << schedVars, scraperVars, pureVars, dryRun, sheet, agents, publishCalls, everPosted >>

\* createTweetContent: getArticleSummary returned or threw; a throw is
\* caught and the headline is the context
Summary(p) ==
    /\ inv[p].pc = "summary"
    /\ \E ok \in BOOLEAN :
        inv' = [inv EXCEPT ![p] =
                   [@ EXCEPT !.pc = "hashtags",
                             !.context = IF ok THEN "summary" ELSE "headline"]]
    /\ UNCHANGED << schedVars, scraperVars, pureVars, dryRun, sheet, agents, publishCalls, everPosted >>

\* the code after the tweet text is final: in dry-run mode a made-up tweet
\* id and markPosted at once, with nothing awaited; otherwise the call of
\* twitter.postTweet, which is awaited
\* a run that calls twitter.postTweet in dry-run mode too
Proceed_AlwaysLive(p, r) ==
    /\ publishCalls' = MapSet(publishCalls, r.postId, PublishCount(r.postId) + 1)
    /\ inv' = [inv EXCEPT ![p] = [r EXCEPT !.pc = "publish", !.calledPublish = TRUE]]
    /\ UNCHANGED << agents, everPosted >>

Proceed(p, r) ==
    IF dryRun
    THEN /\ agents' = [agents EXCEPT ![r.agent] =
                          markPosted(@, r.postId, "dry-run-" \o ToString(p), now)]
         /\ everPosted' = everPosted \cup {r.postId}
         /\ inv' = [inv EXCEPT ![p] =
                       [r EXCEPT !.pc = "done",
                                 !.tweetId = "dry-run-" \o ToString(p)]]
         /\ UNCHANGED publishCalls
    ELSE /\ publishCalls' = MapSet(publishCalls, r.postId, PublishCount(r.postId) + 1)
         /\ inv' = [inv EXCEPT ![p] = [r EXCEPT !.pc = "publish", !.calledPublish = TRUE]]
         /\ UNCHANGED << agents, everPosted >>

\* createTweetContent: getHashtags returned trending or default hashtags
\* (a throw of getTrendingTopics is caught); then the duplicate check, or,
\* for regenerated text, the publication
Hashtags(p) ==
    /\ inv[p].pc = "hashtags"
    /\ \E trending \in BOOLEAN :
        LET r == [inv[p] EXCEPT !.hashtags = IF trending THEN "trending" ELSE "default"]
        IN  IF r.regenerated
            THEN Proceed(p, r)
            ELSE /\ inv' = [inv EXCEPT ![p] = [r EXCEPT !.pc = "dupcheck"]]
                 /\ UNCHANGED << agents, publishCalls, everPosted >>
    /\ UNCHANGED << schedVars, scraperVars, pureVars, dryRun, sheet >>

\* twitter.isDuplicate returned (it catches its errors and returns false):
\* a duplicate makes the text be created once more, a contrarian one
DupCheck(p) ==
    /\ inv[p].pc = "dupcheck"
    /\ \E isDuplicate \in BOOLEAN :
        IF isDuplicate
        THEN /\ inv' = [inv EXCEPT ![p] =
                           [@ EXCEPT !.pc = "summary", !.regenerated = TRUE]]
             /\ UNCHANGED << agents, publishCalls, everPosted >>
        ELSE Proceed(p, inv[p])
    /\ UNCHANGED << schedVars, scraperVars, pureVars, dryRun, sheet >>

\* twitter.postTweet returned a tweet: markPosted, then logPostedTweet is
\* awaited; or it threw: the catch block
PublishReturn(p) ==
    /\ inv[p].pc = "publish"
    /\ \E ok \in BOOLEAN :
        IF ok
        THEN /\ agents' = [agents EXCEPT ![inv[p].agent] =
                              markPosted(@, inv[p].postId, "tweet-" \o ToString(p), now)]
             /\ everPosted' = everPosted \cup {inv[p].postId}
             /\ inv' = [inv EXCEPT ![p] =
                           [@ EXCEPT !.pc = "log", !.tweetId = "tweet-" \o ToString(p)]]
        ELSE /\ inv' = [inv EXCEPT ![p] =
                           [@ EXCEPT !.pc = "alert", !.success = FALSE,
                                     !.error = "postTweet failed"]]
             /\ UNCHANGED << agents, everPosted >>
    /\ UNCHANGED << schedVars, scraperVars, pureVars, dryRun, sheet, publishCalls >>

\* logPostedTweet returned, and run returns its result; or it threw: the
\* catch block
LogPosted(p) ==
    /\ inv[p].pc = "log"
    /\ \E ok \in BOOLEAN :
        inv' = [inv EXCEPT ![p] =
                   IF ok THEN [@ EXCEPT !.pc = "done"]
                   ELSE [@ EXCEPT !.pc = "alert", !.success = FALSE,
                                  !.error = "logPostedTweet failed"]]
    /\ UNCHANGED << schedVars, scraperVars, pureVars, dryRun, sheet, agents, publishCalls, everPosted >>

\* EmailService.send: true when the mail went out, false when there is no
\* recipient or the mail service failed (the error is caught)
send(delivered) == delivered

\* the mutant lets the mail service's error out
sendErrorAlert_Throws(delivered) == [threw |-> ~delivered, value |-> delivered]

\* EmailService.sendErrorAlert builds the message and returns what send
\* returns
sendErrorAlert(delivered) == [threw |-> FALSE, value |-> send(delivered)]

\* the catch block after sendErrorAlert: the email was sent, or it was not
\* (no recipient, or the mail service failed), and run returns its result;
\* a throw of sendErrorAlert would leave run without a result
ErrorAlert(p) ==
    /\ inv[p].pc = "alert"
    /\ \E delivered \in BOOLEAN :
        LET alert == sendErrorAlert(delivered)
        IN  inv' = [inv EXCEPT ![p] =
                       [@ EXCEPT !.pc = "done",
                                 !.alert = IF alert.threw THEN "threw"
                                           ELSE IF alert.value THEN "sent"
                                           ELSE "not-sent"]]
    /\ UNCHANGED << schedVars, scraperVars, pureVars, dryRun, sheet, agents, publishCalls, everPosted >>

\* an hour passes
Tick ==
    /\ \E t \in StartInstants :
        /\ now.y = t.y /\ now.m = t.m /\ now.d = t.d
        /\ now.h < t.h + MaxTicks
    /\ now' = [now EXCEPT !.h = now.h + 1]
    /\ UNCHANGED << scheduler, lastOp, posterVars, scraperVars, pureVars >>

PosterNext ==
    \/ \E p \in 1..MaxInvocations : Scheduled(p)
    \/ \E p \in 1..MaxInvocations : TriggerPost(p)
    \/ \E p \in 1..MaxInvocations : ReadSheet(p)
    \/ \E p \in 1..MaxInvocations : \E a \in 1..Len(agents) : AgentRun(p, a)
    \/ \E p \in 1..MaxInvocations : Summary(p)
    \/ \E p \in 1..MaxInvocations : Hashtags(p)
    \/ \E p \in 1..MaxInvocations : DupCheck(p)
    \/ \E p \in 1..MaxInvocations : PublishReturn(p)
    \/ \E p \in 1..MaxInvocations : LogPosted(p)
    \/ \E p \in 1..MaxInvocations : ErrorAlert(p)
    \/ Tick

SpecPoster == PosterInit /\ [][PosterNext]_vars


(***************************************************************************)
(* Claims about the publish driver                                         *)
(***************************************************************************)
Invocations == DOMAIN inv

\* the invocation resolved a post and returned
Returned(p) == inv[p].pc = "done" /\ inv[p].agent # 0 /\ inv[p].postId # ""

\* the post the invocation resolved, in the scheduler of its agent
PostOf(p) == agents[inv[p].agent].queue[inv[p].postId]

\* C1: once a post has been marked posted, a publish trigger started later
\* that resolves to the same slot of the same day makes no external publish
\* call.  (The claim adds that the post stays posted; the publish call is
\* the half stated here.)
C1_NoPublishAfterPosted ==
    \A p \in Invocations :
        (inv[p].postId # "" /\ inv[p].postId \in inv[p].postedAtStart) =>
            ~inv[p].calledPublish

\* C2: when a step of PosterAgent.run fails after the post was found
\* ready, the post's status is failed, the error text is recorded on the
\* post, and an error alert was sent.
C2_FailureMarksFailed ==
    \A p \in Invocations :
        (Returned(p) /\ ~inv[p].success /\ inv[p].alert # "none") =>
            /\ PostOf(p).status = "failed"
            /\ PostOf(p).error = Some(inv[p].error)

\* C4: of two invocations for the same slot that were both started before
\* the post was marked posted, at most one calls the external publish
\* collaborator.
C4_PublishAtMostOnce ==
    \A p, q \in Invocations :
        (/\ p # q
         /\ inv[p].postId # "" /\ inv[p].postId = inv[q].postId
         /\ inv[p].postId \notin inv[p].postedAtStart
         /\ inv[q].postId \notin inv[q].postedAtStart)
        => ~(inv[p].calledPublish /\ inv[q].calledPublish)


(***************************************************************************)
(* SpecScraper: the collector.  runScrapingAndFiltering (src/index.js)     *)
(* runs ScraperAgent.run (src/agents/scraper.js), which calls              *)
(* scrapeCategory for each category in turn, and hands the articles to the *)
(* filter agent.  A step is the code from one await's completion to the    *)
(* next await's start.  An article is its normalized URL (a number) and    *)
(* its category.                                                           *)
(***************************************************************************)
MIN_ARTICLES_PER_CATEGORY == 5
TARGET_ARTICLES_PER_CATEGORY == 15
MAX_RETRIES == 2

CATEGORIES == << "ai-providers", "business-ai", "ai-safety" >>

\* the URLs of the valid articles a source can return for a category
PrimaryReturns == { << >>, << 1, 2, 3 >>, << 1, 2, 3, 4, 5 >> }
BackupReturns == { << >>, << 3, 4, 4, 5 >>, << 1, 2, 3, 4, 5, 6 >> }
PreviousDayReturns == { << >>, << 7, 8 >> }

\* an awaited call throws, or returns one of the lists
Outcomes(R) ==
    { [ok |-> FALSE, urls |-> << >>] } \cup { [ok |-> TRUE, urls |-> l] : l \in R }

\* the URL of the n-th distinct page the providers know: a URL is the
\* sequence of its characters
PageUrls ==
    << << "a" >>, << "b" >>, << "c" >>, << "d" >>, << "e" >>, << "f" >>, << "g" >>,
       << "h" >> >>

\* enrichArticle on each: the article with its category and the source it
\* came from
Scraped(categoryId, urls, apiUsed) ==
    [i \in 1..Len(urls) |->
        [url |-> PageUrls[urls[i]], category |-> categoryId, apiUsed |-> apiUsed]]

\* url.replace(/\/$/, ''): a slash that ends the URL is removed
removeTrailingSlash(url) ==
    IF Len(url) > 0 /\ url[Len(url)] = "/" THEN SubSeq(url, 1, Len(url) - 1) ELSE url

\* url.replace(/\?.*$/, ''): the first '?' and all that follows are removed
removeQuery(url) ==
    LET marks == { i \in DOMAIN url : url[i] = "?" }
    IN  IF marks = { } THEN url
        ELSE SubSeq(url, 1, (CHOOSE i \in marks : \A j \in marks : i <= j) - 1)

toLowerCase(url) == [i \in DOMAIN url |-> IF url[i] = "A" THEN "a" ELSE url[i]]

normalizedUrl(url) == toLowerCase(removeQuery(removeTrailingSlash(url)))

\* the first article of each normalized URL, in order; an article without
\* URL is dropped
deduplicateArticles(articles) ==
    LET RECURSIVE Build(_)
        Build(i) ==
            IF i = 0 THEN << >>
            ELSE IF /\ articles[i].url # << >>
                    /\ \A j \in 1..(i - 1) :
                          \/ articles[j].url = << >>
                          \/ normalizedUrl(articles[j].url) # normalizedUrl(articles[i].url)
            THEN Append(Build(i - 1), articles[i])
            ELSE Build(i - 1)
    IN  Build(Len(articles))

\* array.slice(0, n)
Slice0(array, n) == SubSeq(array, 1, Min(n, Len(array)))

\* the acceptance test of scrapeCategory; the mutant accepts nothing
Enough_Never(count) == FALSE

Enough(count) == count >= MIN_ARTICLES_PER_CATEGORY

\* the mutant lets the mail service's error out
sendCriticalFailure_Throws(delivered) == [threw |-> ~delivered, value |-> delivered]

sendCriticalFailure(delivered) == [threw |-> FALSE, value |-> send(delivered)]

\* an entry of the record of the calls scrapeCategory awaited: the stage,
\* whether the call returned, the articles it returned and the articles at
\* hand after it
Call(stage, ok, count, combined) ==
    [stage |-> stage, ok |-> ok, count |-> count, combined |-> combined]

ScrapeInstant == [y |-> 2026, m |-> 1, d |-> 5, h |-> 12]

ScraperInit ==
    /\ now = ScrapeInstant
    /\ scheduler = NewScheduler
    /\ lastOp = [op |-> "new", articles |-> << >>, postId |-> "", repeat |-> 1]
    /\ dryRun \in BOOLEAN
    /\ sheet = << >>
    /\ agents = << >>
    /\ inv = << >>
    /\ publishCalls = EmptyMap
    /\ everPosted = {}
    /\ ScraperIdle
    /\ PureIdle

\* scrapeCategory up to its first await: scrapeWithPerplexity's first
\* searchNews
BeginCategory(categoryId) ==
    [IdleScrape EXCEPT !.pc = "primary", !.result = NewResult(categoryId)]

\* getAllArticles: the articles of the categories, in their order
getAllArticles(r) ==
    LET RECURSIVE Concat(_)
        Concat(i) ==
            IF i = 0 THEN << >>
            ELSE Concat(i - 1) \o
                 (IF CATEGORIES[i] \in DOMAIN r.categories
                  THEN r.categories[CATEGORIES[i]].articles ELSE << >>)
    IN  Concat(Len(CATEGORIES))

\* runScrapingAndFiltering after scraper.run returned: a run that did not
\* succeed is returned as it is; otherwise the articles go to filter.run
AfterRun(r) ==
    IF ~r.success THEN [r EXCEPT !.pc = "done"]
    ELSE [r EXCEPT !.pc = "filter", !.filterInput = Some(getAllArticles(r))]

\* ScraperAgent.run after the results were logged: the run succeeded if no
\* category failed
FinishRun(r) ==
    LET failedCategories == { c \in DOMAIN r.categories : ~r.categories[c].success }
    IN  AfterRun([r EXCEPT !.success = (failedCategories = {})])


\* scrapeCategory returns its result: ScraperAgent.run records it and calls
\* scrapeCategory for the next category, or, after the last one, logs the
\* results (not in dry-run mode) and finishes
Returns(result, calls) ==
    LET r == [srun EXCEPT
                 !.categories = MapSet(@, result.categoryId, result),
                 !.totalArticles = @ + Len(result.articles),
                 !.errors = IF ~result.success
                            THEN Append(@, [at |-> result.categoryId,
                                            error |-> result.error])
                            ELSE @]
    IN  /\ lastScrape' = [returned |-> "returned", calls |-> calls, result |-> result]
        /\ IF srun.next < Len(CATEGORIES)
           THEN /\ srun' = [r EXCEPT !.next = @ + 1]
                /\ scrape' = BeginCategory(CATEGORIES[srun.next + 1])
           ELSE /\ scrape' = IdleScrape
                /\ srun' = IF ~dryRun THEN [r EXCEPT !.pc = "logResults"]
                           ELSE FinishRun(r)

\* scrapeCategory throws: the catch block of ScraperAgent.run
Throws(calls) ==
    /\ lastScrape' = [returned |-> "thrown", calls |-> calls, result |-> scrape.result]
    /\ scrape' = IdleScrape
    /\ srun' = [srun EXCEPT !.pc = "runAlert", !.success = FALSE,
                            !.errors = Append(@, [at |-> "scraper",
                                                  error |-> "thrown"])]

\* the cron handler at the scraping time, or POST /trigger/scrape
RunScrapingAndFiltering ==
    /\ srun.pc = "idle"
    /\ srun' = [IdleRun EXCEPT !.pc = "scraping", !.next = 1]
    /\ scrape' = BeginCategory(CATEGORIES[1])
    /\ UNCHANGED << schedVars, posterVars, pureVars, newsapi, lastScrape >>

\* the mutant makes one attempt more
nextAttempt_OneMore(attempt) == attempt + 1 <= MAX_RETRIES + 1

\* the loop of scrapeWithPerplexity after a failed attempt: attempt++, and
\* the loop goes on while attempt <= MAX_RETRIES
nextAttempt(attempt) == attempt + 1 <= MAX_RETRIES

\* perplexity.searchNews returned or threw.  Enough articles: the category
\* is done.  Too few: they are kept and NewsAPI is asked.  A throw: the
\* next attempt after a delay, or, after the last attempt, NewsAPI.
PrimaryReturn ==
    /\ scrape.pc = "primary"
    /\ \E o \in Outcomes(PrimaryReturns) :
        LET articles == Scraped(scrape.result.categoryId, o.urls, "perplexity")
            calls == Append(scrape.calls,
                            Call("primary", o.ok, Len(articles), Len(articles)))
        IN  IF ~o.ok
            THEN /\ scrape' =
                       IF nextAttempt(scrape.attempt)
                       THEN [scrape EXCEPT !.pc = "delay", !.attempt = @ + 1,
                                           !.calls = calls]
                       ELSE [scrape EXCEPT !.pc = "backup", !.calls = calls,
                                !.result.perplexityError = "perplexity failed"]
                 /\ UNCHANGED << lastScrape, srun >>
            ELSE IF Enough(Len(articles))
            THEN Returns([scrape.result EXCEPT !.articles = articles,
                                               !.apiUsed = "perplexity",
                                               !.success = TRUE], calls)
            ELSE /\ scrape' = [scrape EXCEPT !.pc = "backup", !.calls = calls,
                                  !.perplexityArticles = Some(articles)]
                 /\ UNCHANGED << lastScrape, srun >>
    /\ UNCHANGED << schedVars, posterVars, pureVars, newsapi >>

\* the delay before a retry is over: searchNews is called again
DelayDone ==
    /\ scrape.pc = "delay"
    /\ scrape' = [scrape EXCEPT !.pc = "primary"]
    /\ UNCHANGED << schedVars, posterVars, pureVars, newsapi, lastScrape, srun >>

\* the mutant labels every batch accepted at the backup stage combined
backupApiUsed_Combined(perplexityArticles) == "combined"

\* result.perplexityArticles?.length > 0 ? 'combined' : 'newsapi'
backupApiUsed(perplexityArticles) ==
    IF Len(perplexityArticles) > 0 THEN "combined" ELSE "newsapi"

\* newsApi.searchNews returned or threw
BackupReturn ==
    /\ scrape.pc = "backup"
    /\ \E o \in Outcomes(BackupReturns) :
        LET perplexityArticles ==
                IF scrape.perplexityArticles = None THEN << >>
                ELSE scrape.perplexityArticles[1]
            newsApiArticles == Scraped(scrape.result.categoryId, o.urls, "newsapi")
            combined == deduplicateArticles(perplexityArticles \o newsApiArticles)
            calls == Append(scrape.calls,
                            Call("backup", o.ok, Len(newsApiArticles),
                                 IF o.ok THEN Len(combined) ELSE 0))
        IN  IF o.ok /\ Enough(Len(combined))
            THEN Returns([scrape.result EXCEPT
                             !.articles = Slice0(combined, TARGET_ARTICLES_PER_CATEGORY),
                             !.apiUsed = backupApiUsed(perplexityArticles),
                             !.success = TRUE], calls)
            ELSE /\ scrape' = [scrape EXCEPT !.pc = "previous-day", !.calls = calls,
                                  !.result.newsApiError =
                                      IF o.ok THEN "" ELSE "newsapi failed"]
                 /\ UNCHANGED << lastScrape, srun >>
    /\ UNCHANGED << schedVars, posterVars, pureVars, newsapi >>

\* the mutant keeps the articles of the primary provider in the batch
previousDayBatch_KeepPrimary(perplexityArticles, previousDayArticles) ==
    (IF perplexityArticles = None THEN << >> ELSE perplexityArticles[1])
        \o previousDayArticles

\* result.articles = previousDayArticles: what the primary provider
\* returned (result.perplexityArticles) stays out of the batch
previousDayBatch(perplexityArticles, previousDayArticles) == previousDayArticles

\* the mutant takes the previous day's batch even when it is empty
usePreviousDay_Always(previousDayArticles) == TRUE

\* if (previousDayArticles.length > 0)
usePreviousDay(previousDayArticles) == Len(previousDayArticles) > 0

\* getPreviousDayArticles returned: the rows of the category in yesterday's
\* sheet, or nothing when the sheet could not be read (the error is caught)
PreviousDayReturn ==
    /\ scrape.pc = "previous-day"
    /\ \E o \in Outcomes(PreviousDayReturns) :
        LET previousDayArticles ==
                Slice0(Scraped(scrape.result.categoryId, o.urls, "previous-day"),
                       TARGET_ARTICLES_PER_CATEGORY)
            calls == Append(scrape.calls,
                            Call("previous-day", o.ok, Len(previousDayArticles),
                                 Len(previousDayArticles)))
        IN  IF usePreviousDay(previousDayArticles)
            THEN Returns([scrape.result EXCEPT
                             !.articles = previousDayBatch(scrape.perplexityArticles,
                                                           previousDayArticles),
                             !.apiUsed = "previous-day",
                                               !.success = TRUE], calls)
            ELSE /\ scrape' = [scrape EXCEPT !.pc = "alert", !.calls = calls,
                                  !.result.error = "All scraping methods failed"]
                 /\ UNCHANGED << lastScrape, srun >>
    /\ UNCHANGED << schedVars, posterVars, pureVars, newsapi >>

\* email.sendCriticalFailure is over: scrapeCategory returns the failure
AlertReturn ==
    /\ scrape.pc = "alert"
    /\ \E delivered \in BOOLEAN :
        LET calls == Append(scrape.calls, Call("alert", delivered, 0, 0))
        IN  IF sendCriticalFailure(delivered).threw
            THEN Throws(calls)
            ELSE Returns(scrape.result, calls)
    /\ UNCHANGED << schedVars, posterVars, pureVars, newsapi >>

\* logResults is over; a throw goes to the catch block of run
LogResults ==
    /\ srun.pc = "logResults"
    /\ \E ok \in BOOLEAN :
        /\ ok \/ \E c \in DOMAIN srun.categories :
                    Len(srun.categories[c].articles) > 0
        /\ srun' = IF ok THEN FinishRun(srun)
                   ELSE [srun EXCEPT !.pc = "runAlert", !.success = FALSE,
                            !.errors = Append(@, [at |-> "scraper",
                                                  error |-> "logResults failed"])]
    /\ UNCHANGED << schedVars, posterVars, pureVars, newsapi, scrape, lastScrape >>

\* the catch block of run after sendErrorAlert: run returns
RunAlert ==
    /\ srun.pc = "runAlert"
    /\ srun' = AfterRun(srun)
    /\ UNCHANGED << schedVars, posterVars, pureVars, newsapi, scrape, lastScrape >>

\* filter.run returned its result
FilterReturn ==
    /\ srun.pc = "filter"
    /\ \E ok \in BOOLEAN :
        srun' = [srun EXCEPT !.pc = "done",
                             !.filtering = IF ok THEN "ok" ELSE "failed"]
    /\ UNCHANGED << schedVars, posterVars, pureVars, newsapi, scrape, lastScrape >>

ScraperNext ==
    \/ RunScrapingAndFiltering
    \/ PrimaryReturn
    \/ DelayDone
    \/ BackupReturn
    \/ PreviousDayReturn
    \/ AlertReturn
    \/ LogResults
    \/ RunAlert
    \/ FilterReturn

SpecScraper == ScraperInit /\ [][ScraperNext]_vars


(***************************************************************************)
(* Claims about the collector                                              *)
(***************************************************************************)
\* the category failed totally: no source and no previous-day article
TotalFailure(r) == ~r.success /\ r.error = "All scraping methods failed"

\* C5: when one category fails totally and nothing else goes wrong, the
\* other two categories are collected and their candidates are handed on
\* to scoring, ranking and slot assignment (filter.run).
C5_SiblingsProceed ==
    (/\ srun.pc = "done"
     /\ \E c \in DOMAIN srun.categories :
            /\ TotalFailure(srun.categories[c])
            /\ \A d \in DOMAIN srun.categories \ {c} : srun.categories[d].success
     /\ \A i \in DOMAIN srun.errors : srun.errors[i].at # "scraper")
    => /\ \A d \in DOMAIN srun.categories :
              srun.categories[d].success => srun.categories[d].articles # << >>
       /\ srun.filterInput = Some(getAllArticles(srun))

StageRank(stage) ==
    CASE stage = "primary" -> 1
      [] stage = "backup" -> 2
      [] stage = "previous-day" -> 3
      [] stage = "alert" -> 4

\* the calls of one scrapeCategory are in the order primary, backup,
\* previous-day; only the primary is asked more than once; nothing is asked
\* after a primary answer of MIN_ARTICLES_PER_CATEGORY articles or more;
\* the previous day is read only after a backup that threw or left fewer
\* than MIN_ARTICLES_PER_CATEGORY articles
OrderedStages(calls) ==
    /\ \A i, j \in DOMAIN calls :
          i < j => /\ StageRank(calls[i].stage) <= StageRank(calls[j].stage)
                   /\ calls[i].stage = calls[j].stage => calls[i].stage = "primary"
    /\ \A i \in DOMAIN calls :
          /\ (/\ calls[i].stage = "primary" /\ calls[i].ok
              /\ calls[i].count >= MIN_ARTICLES_PER_CATEGORY) => i = Len(calls)
          /\ calls[i].stage = "backup" =>
                 \E j \in 1..(i - 1) : calls[j].stage = "primary"
          /\ calls[i].stage = "previous-day" =>
                 \E j \in 1..(i - 1) :
                     /\ calls[j].stage = "backup"
                     /\ ~calls[j].ok \/ calls[j].combined < MIN_ARTICLES_PER_CATEGORY

\* C6: scrapeCategory asks its stages in the order primary, backup,
\* previous-day; a primary answer of at least 5 articles ends it with no
\* backup and no previous-day query; the previous day is read only when
\* primary and backup together gave fewer than 5 or the backup failed.
C6_StageOrder ==
    /\ OrderedStages(scrape.calls)
    /\ OrderedStages(lastScrape.calls)

\* one category was served by the primary alone, and the last one by the
\* previous day after primary and backup together gave too few
C6_Witness ==
    /\ lastScrape.returned = "returned"
    /\ lastScrape.result.apiUsed = "previous-day"
    /\ \E j \in DOMAIN lastScrape.calls :
          /\ lastScrape.calls[j].stage = "backup" /\ lastScrape.calls[j].ok
          /\ lastScrape.calls[j].combined > 0
    /\ \E c \in DOMAIN srun.categories :
          srun.categories[c].apiUsed = "perplexity"

\* C7: whatever fails (primary, backup, previous-day read, alert),
\* scrapeCategory ends by returning a result object, never by throwing: a
\* call in flight can always go on, it awaits at most MAX_RETRIES + 4
\* calls, and the result is a success with its articles and source or a
\* failure with its error.
C7_ScrapeCategoryReturns ==
    /\ lastScrape.returned # "thrown"
    /\ Len(scrape.calls) <= MAX_RETRIES + 4
    /\ scrape.pc # "idle" => ENABLED ScraperNext
    /\ lastScrape.returned = "returned" =>
          LET r == lastScrape.result
          IN  IF r.success
              THEN r.articles # << >> /\ r.apiUsed # "" /\ r.error = ""
              ELSE r.articles = << >> /\ TotalFailure(r)

\* every stage failed, the alert mail too, and scrapeCategory returned
C7_Witness ==
    /\ lastScrape.returned = "returned"
    /\ ~lastScrape.result.success
    /\ Len(lastScrape.calls) = MAX_RETRIES + 4
    /\ \A i \in DOMAIN lastScrape.calls : ~lastScrape.calls[i].ok


(***************************************************************************)
(* SpecDST: the two isEasternDST functions, of constants/posting-          *)
(* schedule.js (used by the scheduler) and of utils/date-utils.js (used by *)
(* the cron handler), applied to dates of years in which March 1 falls on  *)
(* every day of the week.                                                  *)
(***************************************************************************)
FirstYear == 2021
LastYear == 2029

\* noon UTC of every day of March, of the turn of October to November, and
\* of a day of winter, summer and late autumn
DSTDates ==
    { [y |-> y, m |-> 3, d |-> d, h |-> 12] : y \in FirstYear..LastYear, d \in 1..31 }
    \cup { [y |-> y, m |-> 11, d |-> d, h |-> 12] : y \in FirstYear..LastYear, d \in 1..10 }
    \cup { [y |-> y, m |-> m, d |-> 15, h |-> 12] :
             y \in FirstYear..LastYear, m \in {1, 7, 10, 12} }

DSTInit ==
    /\ now = ScrapeInstant
    /\ scheduler = NewScheduler
    /\ lastOp = [op |-> "new", articles |-> << >>, postId |-> "", repeat |-> 1]
    /\ PosterIdle
    /\ ScraperIdle
    /\ call \in { [fn |-> "none", in |-> date, out |-> << >>] : date \in DSTDates }

\* isEasternDST(date) of posting-schedule.js
ApplyIsEasternDST ==
    /\ call.fn # "isEasternDST"
    /\ call' = [fn |-> "isEasternDST", in |-> call.in, out |-> isEasternDST(call.in)]
    /\ UNCHANGED << schedVars, posterVars, scraperVars >>

\* isEasternDST(date) of date-utils.js
ApplyIsEasternDSTUtils ==
    /\ call.fn # "isEasternDST_utils"
    /\ call' = [fn |-> "isEasternDST_utils", in |-> call.in,
                out |-> isEasternDST_utils(call.in)]
    /\ UNCHANGED << schedVars, posterVars, scraperVars >>

DSTNext ==
    \/ ApplyIsEasternDST
    \/ ApplyIsEasternDSTUtils

SpecDST == DSTInit /\ [][DSTNext]_vars

\* the n-th Sunday of a month
NthSunday(y, m, n) ==
    CHOOSE d \in (7 * (n - 1) + 1)..(7 * n) : Weekday(y, m, d) = 0

\* the day is in the civic daylight period of its year: from the second
\* Sunday of March on, and before the first Sunday of November
InDaylightPeriod(date) ==
    /\ date.m > 3 \/ (date.m = 3 /\ date.d >= NthSunday(date.y, 3, 2))
    /\ date.m < 11 \/ (date.m = 11 /\ date.d < NthSunday(date.y, 11, 1))

\* C11: in every year, isEasternDST (either function) is true exactly for
\* the dates from the second Sunday of March (inclusive) up to the first
\* Sunday of November (exclusive).
C11_DaylightPeriod ==
    call.fn \in {"isEasternDST", "isEasternDST_utils"} =>
        (call.out <=> InDaylightPeriod(call.in))


(***************************************************************************)
(* SpecAgent: one PosterAgent, holding the schedule runPosting imported,   *)
(* under any sequence of its operations that do not overlap: run,          *)
(* retryPost, and markFailed on its scheduler.  The result of an operation *)
(* goes to its caller when it returns.                                     *)
(***************************************************************************)
\* the calls of twitter.postTweet in one behaviour
MaxAttempts == 2

\* the post ids an operator passes: the posts of the first slots, and one
\* that is not in the queue
OperatorIds == { PostId(getTodayString(now), n) : n \in 1..3 } \cup { "unknown" }

\* the schedule runPosting imports into the agent: the sheet was read and
\* its rows assigned, or it was not
ImportedSchedules(date) ==
    { exportSchedule(IF readOk /\ Len(rows) > 0
                     THEN assignArticlesToSchedule(
                              initializeDailySchedule(NewScheduler, date), rows)
                     ELSE initializeDailySchedule(NewScheduler, date)) :
        readOk \in BOOLEAN, rows \in SheetContents }

AgentInit ==
    /\ now \in StartInstants
    /\ scheduler = NewScheduler
    /\ lastOp = [op |-> "new", articles |-> << >>, postId |-> "", repeat |-> 1]
    /\ dryRun \in BOOLEAN
    /\ sheet = << >>
    /\ \E schedule \in ImportedSchedules(now) :
          agents = << importSchedule(NewScheduler, schedule) >>
    /\ inv = << IdleInv >>
    /\ publishCalls = EmptyMap
    /\ everPosted = {}
    /\ ScraperIdle
    /\ PureIdle

RECURSIVE SumCalls(_)
SumCalls(ids) ==
    IF ids = {} THEN 0
    ELSE LET id == CHOOSE x \in ids : TRUE
         IN  publishCalls[id] + SumCalls(ids \ {id})

AttemptsLeft == SumCalls(DOMAIN publishCalls) < MaxAttempts

\* the caller has the result of the operation
ResultTaken(p) ==
    /\ inv[p].pc = "done"
    /\ inv' = [inv EXCEPT ![p] = IdleInv]
    /\ UNCHANGED << schedVars, scraperVars, pureVars, dryRun, sheet, agents,
                    publishCalls, everPosted >>

\* retryPost(postId): an unknown post or a post that is not failed is an
\* error; a failed post is made ready and run is called, for the slot of
\* the current hour
RetryPost(p, a, postId) ==
    /\ inv[p].pc = "idle"
    /\ LET s == agents[a]
           r == [inv[p] EXCEPT !.via = "retryPost", !.agent = a,
                               !.retryId = postId,
                               !.postedAtStart = everPosted,
                               !.failedAtStart = FailedIds]
       IN  IF postId \notin DOMAIN s.queue
           THEN /\ inv' = [inv EXCEPT ![p] =
                              [r EXCEPT !.pc = "done", !.success = FALSE,
                                        !.error = "Post not found"]]
                /\ UNCHANGED agents
           ELSE IF s.queue[postId].status # "failed"
           THEN /\ inv' = [inv EXCEPT ![p] =
                              [r EXCEPT !.pc = "done", !.success = FALSE,
                                        !.error = "Post status is "
                                            \o s.queue[postId].status
                                            \o ", not failed"]]
                /\ UNCHANGED agents
           ELSE LET s1 == [s EXCEPT !.queue[postId].status = "ready"]
                IN  /\ agents' = [agents EXCEPT ![a] = s1]
                    /\ inv' = [inv EXCEPT ![p] = RunBegin(r, s1)]
    /\ UNCHANGED << schedVars, scraperVars, pureVars, dryRun, sheet,
                    publishCalls, everPosted >>

\* scheduler.markFailed(postId, error) on the agent's scheduler
AgentMarkFailed(a, postId) ==
    /\ \A p \in DOMAIN inv : inv[p].pc = "idle"
    /\ postId \in DOMAIN agents[a].queue
    /\ agents[a].queue[postId].status # "failed"
    /\ agents' = [agents EXCEPT ![a] = markFailed(@, postId, "error-1")]
    /\ UNCHANGED << schedVars, scraperVars, pureVars, dryRun, sheet, inv,
                    publishCalls, everPosted >>

AgentNext ==
    \/ AttemptsLeft /\ AgentRun(1, 1)
    \/ \E postId \in OperatorIds : AttemptsLeft /\ RetryPost(1, 1, postId)
    \/ \E postId \in OperatorIds : AgentMarkFailed(1, postId)
    \/ Summary(1)
    \/ Hashtags(1)
    \/ DupCheck(1)
    \/ PublishReturn(1)
    \/ LogPosted(1)
    \/ ErrorAlert(1)
    \/ ResultTaken(1)
    \/ Tick

SpecAgent == AgentInit /\ [][AgentNext]_vars


(***************************************************************************)
(* Claims about one PosterAgent                                            *)
(***************************************************************************)
\* C12: when PosterAgent.run found the current post ready and the publish
\* call succeeds, the post's status becomes posted, the tweet id the call
\* returned and the time are recorded on the post, and the post id is
\* added to postedToday.
C12_PublishSuccessMarksPosted ==
    [][\A p \in DOMAIN inv :
          (inv[p].pc = "publish" /\ inv'[p].pc = "log") =>
              LET s == agents'[inv[p].agent]
                  post == s.queue[inv[p].postId]
              IN  /\ post.status = "posted"
                  /\ inv'[p].tweetId # ""
                  /\ post.tweetId = Some(inv'[p].tweetId)
                  /\ post.postedAt = Some(now)
                  /\ inv[p].postId \in s.postedToday]_vars

\* a run's publish call has succeeded
C12_Witness ==
    \E p \in DOMAIN inv :
        /\ inv[p].pc = "log" /\ inv[p].via = "run"
        /\ inv[p].calledPublish
        /\ PostOf(p).status = "posted"


\* the status of every post of a scheduler
Statuses(s) == [id \in DOMAIN s.queue |-> s.queue[id].status]

\* C13: in dry-run mode PosterAgent.run never calls the external publish
\* collaborator, and the run of a ready post ends as a live run with a
\* successful publish call does: the post is posted, with a made-up tweet
\* id, the time and its id in postedToday, and no other post changes.
C13_DryRunSameTransitions ==
    [][dryRun =>
          /\ publishCalls' = EmptyMap
          /\ \A p \in DOMAIN inv :
                /\ ~inv'[p].calledPublish
                /\ (inv[p].pc \in {"hashtags", "dupcheck"} /\ inv'[p].pc = "done") =>
                      LET a == inv[p].agent
                          id == inv[p].postId
                          live == markPosted(agents[a], id, "tweet-" \o ToString(p), now)
                      IN  /\ Statuses(agents'[a]) = Statuses(live)
                          /\ agents'[a].postedToday = live.postedToday
                          /\ agents[a].queue[id].status = "ready"
                          /\ agents'[a].queue[id].status = "posted"
                          /\ agents'[a].queue[id].postedAt = Some(now)
                          /\ agents'[a].queue[id].tweetId =
                                 Some("dry-run-" \o ToString(p))
                          /\ \A other \in DOMAIN agents[a].queue \ {id} :
                                 agents'[a].queue[other] = agents[a].queue[other]]_vars

\* a dry run has posted its post
C13_Witness ==
    /\ dryRun
    /\ \E p \in DOMAIN inv :
          /\ inv[p].pc = "done" /\ inv[p].tweetId = "dry-run-" \o ToString(p)
          /\ PostOf(p).status = "posted"
          /\ inv[p].postId \in agents[inv[p].agent].postedToday


\* C14: when no post resolves for the current slot, or the resolved post
\* is not ready (pending, no-article, failed), PosterAgent.run returns at
\* once: it composes nothing, makes no external publish call and leaves
\* every post and postedToday as they were.
C14_NotReadyChangesNothing ==
    [][\A p \in DOMAIN inv :
          (inv[p].pc = "idle" /\ inv'[p].pc # "idle" /\ inv'[p].via = "run") =>
              LET s == agents[inv'[p].agent]
                  post == getCurrentPost(s, now)
              IN  (post = None \/ s.queue[post[1]].status # "ready") =>
                      /\ inv'[p].pc = "done"
                      /\ inv'[p].context = "" /\ inv'[p].hashtags = ""
                      /\ ~inv'[p].calledPublish
                      /\ publishCalls' = publishCalls
                      /\ agents' = agents
                      /\ IF post = None
                         THEN inv'[p].success /\ inv'[p].message = "No post scheduled"
                         ELSE ~inv'[p].success]_vars

\* a run has found the post of the slot failed
C14_Witness ==
    \E p \in DOMAIN inv :
        /\ inv[p].pc = "done" /\ inv[p].via = "run"
        /\ inv[p].error = "Post not ready: failed"
        /\ PostOf(p).status = "failed"


\* C15: after a publish call for a slot has failed, no trigger started
\* later for that slot calls the external publish collaborator again,
\* unless retryPost was called for the post.  (The claim adds that
\* retryPost changes only a failed post; the re-attempt is the half stated
\* here.)
C15_NoAutomaticRetry ==
    \A p \in DOMAIN inv :
        (/\ inv[p].postId # ""
         /\ inv[p].postId \in inv[p].failedAtStart
         /\ inv[p].via # "retryPost")
        => ~inv[p].calledPublish


(***************************************************************************)
(* SpecSelect: FilterAgent.run's selection (src/agents/filter.js):         *)
(* scoreArticles returns the scored articles sorted by score, highest      *)
(* first, and selectTopArticles picks from that list.                      *)
(***************************************************************************)
MIN_SCORE_THRESHOLD == 60
ARTICLES_PER_CATEGORY == 3

\* the scored articles of one run
MaxScored == 4

\* the scores the articles have: below, at and above the threshold
Scores == { 55, 60, 75 }

\* lists of at most MaxScored scored articles of two categories, in any
\* order of scores; the URL of an article is its place in the list
ScoredLists ==
    UNION { [1..n -> { [category |-> c, score |-> sc] :
                          c \in {"ai-providers", "ai-safety"}, sc \in Scores }] :
              n \in 0..MaxScored }

WithUrls(l) ==
    [i \in 1..Len(l) |-> [url |-> i, category |-> l[i].category, score |-> l[i].score]]

\* a sort that leaves the list as it is
SortByScore_None(articles) == articles

\* a sort, highest first, that puts an article before the articles of equal
\* score that came before it
SortByScore_TiesReversed(articles) ==
    LET RECURSIVE Insert(_, _)
        Insert(sorted, a) ==
            IF sorted = << >> THEN << a >>
            ELSE IF Head(sorted).score > a.score
            THEN << Head(sorted) >> \o Insert(Tail(sorted), a)
            ELSE << a >> \o sorted
        RECURSIVE Sort(_)
        Sort(i) == IF i = 0 THEN << >> ELSE Insert(Sort(i - 1), articles[i])
    IN  Sort(Len(articles))

\* scoredArticles.sort((a, b) => b.score - a.score): stable, highest first
SortByScore(articles) ==
    LET RECURSIVE Insert(_, _)
        Insert(sorted, a) ==
            IF sorted = << >> THEN << a >>
            ELSE IF Head(sorted).score >= a.score
            THEN << Head(sorted) >> \o Insert(Tail(sorted), a)
            ELSE << a >> \o sorted
        RECURSIVE Sort(_)
        Sort(i) == IF i = 0 THEN << >> ELSE Insert(Sort(i - 1), articles[i])
    IN  Sort(Len(articles))

\* articlesByCategory[category.id] || []
OfCategory(articles, categoryId) ==
    SelectSeq(articles, LAMBDA a : a.category = categoryId)

\* selectTopArticles: per category, in the order of CATEGORIES, the first
\* three qualified articles if three qualify, else the first three of the
\* category, each with its rank
selectTopArticles(scoredArticles) ==
    LET Selected(categoryId) ==
            LET categoryArticles == OfCategory(scoredArticles, categoryId)
                qualifiedArticles ==
                    SelectSeq(categoryArticles, LAMBDA a : a.score >= MIN_SCORE_THRESHOLD)
                articlesToSelect ==
                    IF Len(qualifiedArticles) >= ARTICLES_PER_CATEGORY
                    THEN Slice0(qualifiedArticles, ARTICLES_PER_CATEGORY)
                    ELSE Slice0(categoryArticles, ARTICLES_PER_CATEGORY)
            IN  [i \in 1..Len(articlesToSelect) |->
                    [url |-> articlesToSelect[i].url,
                     category |-> categoryId,
                     score |-> articlesToSelect[i].score,
                     categoryRank |-> i]]
        RECURSIVE All(_)
        All(k) == IF k = 0 THEN << >> ELSE All(k - 1) \o Selected(CATEGORIES[k])
    IN  All(Len(CATEGORIES))

SelectInit ==
    /\ now = ScrapeInstant
    /\ scheduler = NewScheduler
    /\ lastOp = [op |-> "new", articles |-> << >>, postId |-> "", repeat |-> 1]
    /\ PosterIdle
    /\ ScraperIdle
    /\ call \in { [fn |-> "none", in |-> WithUrls(l), out |-> << >>] : l \in ScoredLists }

\* scoreArticles' sort, then selectTopArticles
ApplySelectTopArticles ==
    /\ call.fn = "none"
    /\ call' = [fn |-> "selectTopArticles", in |-> call.in,
                out |-> selectTopArticles(SortByScore(call.in))]
    /\ UNCHANGED << schedVars, posterVars, scraperVars >>

SelectNext == ApplySelectTopArticles

SpecSelect == SelectInit /\ [][SelectNext]_vars

MaxHoursAgo == 25
MaxHoursAhead == 1

\* new Date() at the time of the call
CurrentInstant == Some(MaxHoursAgo * 60)

PublishDates ==
    { Some(t) : t \in 0..((MaxHoursAgo + MaxHoursAhead) * 60) } \cup { None }

\* (date2 - date1) / 3600000, in minutes; NaN when either date is invalid
hoursBetween(date1, date2) ==
    IF date1 = None \/ date2 = None THEN None ELSE Some(date2[1] - date1[1])

calculateRecencyScore_Exclusive(publishDate, current) ==
    LET hoursAgo == hoursBetween(publishDate, current)
    IN  IF hoursAgo = None THEN 0
        ELSE IF hoursAgo[1] < 0 THEN 0
        ELSE IF hoursAgo[1] < 6 * 60 THEN 20
        ELSE IF hoursAgo[1] < 12 * 60 THEN 15
        ELSE IF hoursAgo[1] < 18 * 60 THEN 10
        ELSE IF hoursAgo[1] < 24 * 60 THEN 5
        ELSE 0

\* every comparison with NaN is false, so an invalid date falls through to 0
calculateRecencyScore(publishDate, current) ==
    LET hoursAgo == hoursBetween(publishDate, current)
    IN  IF hoursAgo = None THEN 0
        ELSE IF hoursAgo[1] < 0 THEN 0
        ELSE IF hoursAgo[1] <= 6 * 60 THEN 20
        ELSE IF hoursAgo[1] <= 12 * 60 THEN 15
        ELSE IF hoursAgo[1] <= 18 * 60 THEN 10
        ELSE IF hoursAgo[1] <= 24 * 60 THEN 5
        ELSE 0

RecencyInit ==
    /\ now = ScrapeInstant
    /\ scheduler = NewScheduler
    /\ lastOp = [op |-> "new", articles |-> << >>, postId |-> "", repeat |-> 1]
    /\ PosterIdle
    /\ ScraperIdle
    /\ call \in { [fn |-> "none", in |-> d, out |-> << >>] : d \in PublishDates }

ApplyCalculateRecencyScore ==
    /\ call.fn = "none"
    /\ call' = [fn |-> "calculateRecencyScore", in |-> call.in,
                out |-> calculateRecencyScore(call.in, CurrentInstant)]
    /\ UNCHANGED << schedVars, posterVars, scraperVars >>

RecencyNext == ApplyCalculateRecencyScore

SpecRecency == RecencyInit /\ [][RecencyNext]_vars

\* minutes elapsed between a valid publish date and the current instant
ElapsedMinutes(publishDate) == CurrentInstant[1] - publishDate[1]

\* C18: for a valid publish date, calculateRecencyScore is 20 up to and
\* including 6 hours of elapsed time, 15 up to and including 12 hours, 10
\* up to and including 18 hours, 5 up to and including 24 hours and 0
\* beyond; it is 0 for a publish date in the future; and it never grows
\* with the elapsed time once that is non-negative.
C18_RecencyBands ==
    (call.fn = "calculateRecencyScore" /\ call.in # None) =>
        LET elapsed == ElapsedMinutes(call.in)
        IN  /\ call.out = IF elapsed < 0 THEN 0
                          ELSE IF elapsed <= 360 THEN 20
                          ELSE IF elapsed <= 720 THEN 15
                          ELSE IF elapsed <= 1080 THEN 10
                          ELSE IF elapsed <= 1440 THEN 5
                          ELSE 0
            /\ elapsed >= 0 =>
                  \A later \in PublishDates \ { None } :
                      ElapsedMinutes(later) >= elapsed =>
                          calculateRecencyScore(later, CurrentInstant) <= call.out

\* an article published exactly 6 hours ago scores 20
C18_Witness ==
    /\ call.fn = "calculateRecencyScore"
    /\ call.in # None
    /\ ElapsedMinutes(call.in) = 360
    /\ call.out = 20


\* ---------------------------------------------------------------------
\* FilterAgent.scoreArticle (filter.js).  The tests the scoring functions
\* make on the article's text are pattern matches, so an article is read
\* as the set of patterns its headline and summary match, the number of
\* business keywords it contains, the listed source names its source
\* contains, and its publish date.
\* ---------------------------------------------------------------------

\* the pattern sets drawn are those with at most MaxMixed patterns matching
\* or at most MaxMixed patterns not matching
MaxMixed == 1

Patterns ==
    { "provocativeHeadline",   \* isProvocative(article.headline)
      "provocativeSummary",    \* a provocative pattern in the summary
      "questionHeadline",      \* containsQuestion(article.headline)
      "questionSummary",       \* a '?' in the summary
      "opinion",               \* should|must|need|wrong|right|better|...
      "novel",                 \* study|research|report|survey|data|...
      "statistics",            \* containsStatistics(text)
      "entity",                \* one of majorEntities
      "breaking",              \* just|breaking|now|today|announces?|...
      "ROI",                   \* business keyword and SEO keyword
      "enterprise",            \* SEO keyword and B2B keyword
      "seoKeyword",            \* another of seoKeywords
      "b2bKeyword" }           \* another of b2bKeywords

PatternSets ==
    { m \in SUBSET Patterns :
        \/ Cardinality(m) <= MaxMixed
        \/ Cardinality(Patterns \ m) <= MaxMixed }

\* how many of the nine business keywords other than 'ROI' the text has
BusinessOthers == { 0, 1, 4, 5, 9 }

\* the names of SOURCE_TIERS that the lower-cased source contains
Sources ==
    { { "techcrunch" }, { "axios" }, { "forbes" }, { "openai", "openai.com" },
      { "google", "reuters" }, { } }

ScoredPublishDates ==
    { None,                                \* Invalid Date
      Some(CurrentInstant[1] + 60),        \* an hour ahead
      CurrentInstant,
      Some(CurrentInstant[1] - 12 * 60),
      Some(0) }

ScoredArticles ==
    { [matches |-> m, businessOthers |-> b, source |-> s, publishDate |-> d] :
        m \in PatternSets, b \in BusinessOthers, s \in Sources,
        d \in ScoredPublishDates }

\* what the AI request does: the fetch rejects, the response is not ok, or
\* it is ok and carries a content (None when the field is missing)
Responses ==
    { [kind |-> "rejected", content |-> None],
      [kind |-> "notOk", content |-> None] }
    \cup { [kind |-> "ok", content |-> c] :
             c \in { None,
                     Some(<< "n", "/", "a" >>),
                     Some(<< "-", "3" >>),
                     Some(<< "1", "7" >>),
                     Some(<< "4", "0" >>) } }

NoResponse == [kind |-> "none", content |-> None]

\* getAIProvider(config) and the outcome of the request it leads to
Providers ==
    { [aiProvider |-> "heuristic", response |-> NoResponse] }
    \cup { [aiProvider |-> p, response |-> r] :
             p \in { "openai", "anthropic" }, r \in Responses }

SOURCE_TIERS ==
    << [score |-> 25, sources |-> { "techcrunch", "the verge", "bloomberg", "reuters",
                                    "wsj", "wall street journal", "nyt",
                                    "new york times", "wired" }],
       [score |-> 20, sources |-> { "venturebeat", "ars technica",
                                    "mit technology review", "the information",
                                    "protocol", "axios" }],
       [score |-> 15, sources |-> { "forbes", "business insider", "zdnet", "cnet",
                                    "engadget" }],
       [score |-> 10, sources |-> { "openai", "google", "anthropic", "microsoft",
                                    "meta", "deepmind", "blog.google", "openai.com" }],
       [score |-> 5, sources |-> { }] >>

Max(a, b) == IF a >= b THEN a ELSE b

calculateAuthorityScore(source) ==
    LET hits == { k \in DOMAIN SOURCE_TIERS : SOURCE_TIERS[k].sources \cap source # { } }
    IN  IF hits = { } THEN SOURCE_TIERS[5].score
        ELSE SOURCE_TIERS[CHOOSE k \in hits : \A j \in hits : k <= j].score

\* text = headline + ' ' + summary
isProvocativeText(article) ==
    \/ "provocativeHeadline" \in article.matches
    \/ "provocativeSummary" \in article.matches

containsQuestionText(article) ==
    \/ "questionHeadline" \in article.matches
    \/ "questionSummary" \in article.matches

businessMatches(article) ==
    article.businessOthers + (IF "ROI" \in article.matches THEN 1 ELSE 0)

calculateEngagementScoreHeuristic_Uncapped(article) ==
    (IF isProvocativeText(article) THEN 5 ELSE 0)
    + (IF containsQuestionText(article) THEN 3 ELSE 0)
    + (IF "opinion" \in article.matches THEN 2 ELSE 0)
    + businessMatches(article) * 2
    + (IF "novel" \in article.matches THEN 5 ELSE 0)

calculateEngagementScoreHeuristic(article) ==
    LET score == (IF isProvocativeText(article) THEN 5 ELSE 0)
                 + (IF containsQuestionText(article) THEN 3 ELSE 0)
                 + (IF "opinion" \in article.matches THEN 2 ELSE 0)
                 + Min(businessMatches(article) * 2, 10)
                 + (IF "novel" \in article.matches THEN 5 ELSE 0)
    IN  Min(score, 25)

Digits == { "0", "1", "2", "3", "4", "5", "6", "7", "8", "9" }

DigitValue(c) ==
    CASE c = "0" -> 0 [] c = "1" -> 1 [] c = "2" -> 2 [] c = "3" -> 3 [] c = "4" -> 4
      [] c = "5" -> 5 [] c = "6" -> 6 [] c = "7" -> 7 [] c = "8" -> 8 [] c = "9" -> 9

\* parseInt(scoreText, 10): an optional sign and the leading digits; NaN
\* (None) when there is no digit or the text is undefined
parseInt(scoreText) ==
    IF scoreText = None THEN None
    ELSE LET text == scoreText[1]
             signed == Len(text) > 0 /\ text[1] \in { "-", "+" }
             body == IF signed THEN Tail(text) ELSE text
             RECURSIVE Leading(_)
             Leading(n) == IF n < Len(body) /\ body[n + 1] \in Digits
                           THEN Leading(n + 1) ELSE n
             RECURSIVE Value(_)
             Value(n) == IF n = 0 THEN 0 ELSE Value(n - 1) * 10 + DigitValue(body[n])
         IN  IF Leading(0) = 0 THEN None
             ELSE IF signed /\ text[1] = "-" THEN Some(0 - Value(Leading(0)))
             ELSE Some(Value(Leading(0)))

\* the value returned, or threw = TRUE when the call rejects
calculateEngagementScoreAI(article, aiProvider, response) ==
    IF aiProvider \in { "openai", "anthropic" }
    THEN IF response.kind # "ok" THEN [threw |-> TRUE, value |-> 0]
         ELSE LET score == parseInt(response.content)
              IN  [threw |-> FALSE,
                   value |-> IF score = None THEN 12
                             ELSE Min(Max(score[1], 0), 25)]
    ELSE [threw |-> FALSE, value |-> calculateEngagementScoreHeuristic(article)]

calculateEngagementScore(article, aiProvider, response) ==
    IF aiProvider = "heuristic" THEN calculateEngagementScoreHeuristic(article)
    ELSE LET r == calculateEngagementScoreAI(article, aiProvider, response)
         IN  IF r.threw THEN calculateEngagementScoreHeuristic(article) ELSE r.value

calculateViralityScore(article) ==
    LET score == (IF "statistics" \in article.matches THEN 5 ELSE 0)
                 + (IF \/ "questionHeadline" \in article.matches
                       \/ "provocativeHeadline" \in article.matches THEN 5 ELSE 0)
                 + (IF "entity" \in article.matches THEN 5 ELSE 0)
                 + (IF "breaking" \in article.matches THEN 5 ELSE 0)
    IN  Min(score, 20)

calculateSeoScore(article) ==
    LET score == (IF article.matches \cap { "ROI", "enterprise", "seoKeyword" } # { }
                  THEN 5 ELSE 0)
                 + (IF article.matches \cap { "enterprise", "b2bKeyword" } # { }
                    THEN 5 ELSE 0)
    IN  Min(score, 10)

scoreArticle(article, aiProvider, response) ==
    LET recencyScore == calculateRecencyScore(article.publishDate, CurrentInstant)
        authorityScore == calculateAuthorityScore(article.source)
        engagementScore == calculateEngagementScore(article, aiProvider, response)
        viralityScore == calculateViralityScore(article)
        seoScore == calculateSeoScore(article)
    IN  [score |-> recencyScore + authorityScore + engagementScore
                   + viralityScore + seoScore,
         recencyScore |-> recencyScore,
         authorityScore |-> authorityScore,
         engagementScore |-> engagementScore,
         viralityScore |-> viralityScore,
         seoScore |-> seoScore]

ScoreInit ==
    /\ now = ScrapeInstant
    /\ scheduler = NewScheduler
    /\ lastOp = [op |-> "new", articles |-> << >>, postId |-> "", repeat |-> 1]
    /\ PosterIdle
    /\ ScraperIdle
    /\ call \in { [fn |-> "none",
                   in |-> [article |-> a, aiProvider |-> p.aiProvider,
                           response |-> p.response],
                   out |-> << >>] : a \in ScoredArticles, p \in Providers }

ApplyScoreArticle ==
    /\ call.fn = "none"
    /\ call' = [fn |-> "scoreArticle", in |-> call.in,
                out |-> scoreArticle(call.in.article, call.in.aiProvider,
                                     call.in.response)]
    /\ UNCHANGED << schedVars, posterVars, scraperVars >>

ApplyCalculateEngagementScore ==
    /\ call.fn = "none"
    /\ call' = [fn |-> "calculateEngagementScore", in |-> call.in,
                out |-> calculateEngagementScore(call.in.article, call.in.aiProvider,
                                                 call.in.response)]
    /\ UNCHANGED << schedVars, posterVars, scraperVars >>

ScoreNext ==
    \/ ApplyScoreArticle
    \/ ApplyCalculateEngagementScore

SpecScore == ScoreInit /\ [][ScoreNext]_vars

\* C17: scoreArticle gives a recency score in 0..20, an authority score
\* among 5, 10, 15, 20, 25, an engagement score in 0..25, a virality score
\* in 0..20 and an SEO score in 0..10, whatever patterns match, and the
\* total is the sum of the five and lies in 0..100.
C17_SubScoresWithinCaps ==
    call.fn = "scoreArticle" =>
        /\ call.out.recencyScore \in 0..20
        /\ call.out.authorityScore \in { 5, 10, 15, 20, 25 }
        /\ call.out.engagementScore \in 0..25
        /\ call.out.viralityScore \in 0..20
        /\ call.out.seoScore \in 0..10
        /\ call.out.score = call.out.recencyScore + call.out.authorityScore
                            + call.out.engagementScore + call.out.viralityScore
                            + call.out.seoScore
        /\ call.out.score \in 0..100

\* every pattern matches and all ten business keywords are present: the
\* heuristic engagement score is held at 25, virality at 20, SEO at 10
C17_Witness ==
    /\ call.fn = "scoreArticle"
    /\ call.in.aiProvider = "heuristic"
    /\ call.in.article.matches = Patterns
    /\ businessMatches(call.in.article) = 10
    /\ call.out.engagementScore = 25
    /\ call.out.viralityScore = 20
    /\ call.out.seoScore = 10

\* C19: when the AI request fails, or its response is not a number or is a
\* number outside 0..25, calculateEngagementScore returns the heuristic
\* score of the article.
C19_FallsBackToHeuristic ==
    (/\ call.fn = "calculateEngagementScore"
     /\ call.in.aiProvider # "heuristic"
     /\ \/ call.in.response.kind # "ok"
        \/ parseInt(call.in.response.content) = None
        \/ parseInt(call.in.response.content)[1] \notin 0..25)
    => call.out = calculateEngagementScoreHeuristic(call.in.article)


\* ---------------------------------------------------------------------
\* PosterAgent.createTweetContent (poster.js) and the text utilities it
\* uses (text-utils.js).  A text is the sequence of the lengths of its
\* words, the words being joined by single spaces; a tweet is the sequence
\* of its paragraphs, which are joined by "\n\n".  Headlines, summaries and
\* quotes hold no hashtag and no URL; the first word of a hashtag is
\* '#' followed by word characters.
\* ---------------------------------------------------------------------

TWITTER_URL_LENGTH == 23
MAX_TWEET_LENGTH == 280

RECURSIVE Chars(_)
Chars(text) == IF text = << >> THEN 0 ELSE Head(text) + Chars(Tail(text))

\* text.length
TextLength(text) == IF text = << >> THEN 0 ELSE Chars(text) + Len(text) - 1

\* the index (from 0) of the first character of word i
WordStart(text, i) == Chars(SubSeq(text, 1, i - 1)) + (i - 1)

\* text.lastIndexOf(' ', fromIndex); a negative fromIndex counts as 0
lastIndexOfSpace(text, fromIndex) ==
    LET hits == { p \in { WordStart(text, i) - 1 : i \in 2..Len(text) } :
                    p <= Max(fromIndex, 0) }
    IN  IF hits = { } THEN 0 - 1
        ELSE CHOOSE p \in hits : \A q \in hits : q <= p

\* text.substring(0, cutPoint).trim(); a negative cutPoint counts as 0
SubstringTrim(text, cutPoint) ==
    LET k == Cardinality({ i \in 1..Len(text) : WordStart(text, i) < cutPoint })
    IN  [i \in 1..k |-> Min(text[i], cutPoint - WordStart(text, i))]

\* the suffix '...' is joined to the last word kept
truncateText(text, maxLength) ==
    IF TextLength(text) <= maxLength THEN text
    ELSE LET truncateAt == maxLength - 3
             lastSpace == lastIndexOfSpace(text, truncateAt)
             \* lastSpace > truncateAt * 0.7
             cutPoint == IF lastSpace * 10 > truncateAt * 7 THEN lastSpace
                         ELSE truncateAt
             kept == SubstringTrim(text, cutPoint)
         IN  IF kept = << >> THEN << 3 >>
             ELSE [kept EXCEPT ![Len(kept)] = @ + 3]

TextLine(words) == [kind |-> "text", words |-> words, tags |-> << >>]
UrlLine(url) == [kind |-> "url", words |-> << url >>, tags |-> << >>]
TagsLine(tags) == [kind |-> "hashtags", words |-> << >>, tags |-> tags]

\* tags.join(' ')
RECURSIVE Join(_)
Join(tags) == IF tags = << >> THEN << >> ELSE Head(tags) \o Join(Tail(tags))

\* the characters of a paragraph; a URL paragraph holds the URL alone
LineLength(line) ==
    IF line.kind = "hashtags" THEN TextLength(Join(line.tags))
    ELSE TextLength(line.words)

RECURSIVE LinesLength(_)
LinesLength(tweet) ==
    IF tweet = << >> THEN 0 ELSE LineLength(Head(tweet)) + LinesLength(Tail(tweet))

\* text.length: the paragraphs and the "\n\n" between them
TweetTextLength(tweet) ==
    IF tweet = << >> THEN 0 ELSE LinesLength(tweet) + 2 * (Len(tweet) - 1)

calculateTweetLength_Raw(tweet) == TweetTextLength(tweet)

\* urls = text.match(urlPattern) || []; for each, length - url.length + 23
calculateTweetLength(tweet) ==
    LET urls == SelectSeq(tweet, LAMBDA line : line.kind = "url")
        RECURSIVE Adjust(_, _)
        Adjust(length, k) ==
            IF k > Len(urls) THEN length
            ELSE Adjust(length - urls[k].words[1] + TWITTER_URL_LENGTH, k + 1)
    IN  Adjust(TweetTextLength(tweet), 1)

DEFAULT_HASHTAGS(categoryId) ==
    CASE categoryId = "business-ai" -> << << 3 >>, << 11 >>, << 22 >> >>
      [] categoryId = "ai-safety" -> << << 3 >>, << 9 >>, << 9 >> >>
      [] OTHER -> << << 3 >>, << 23 >>, << 9 >> >>

\* a trending topic: its name, whether the name starts with '#', and
\* whether it matches the AI pattern of getHashtags
Topic(name, hash, ai) == [name |-> name, hash |-> hash, ai |-> ai]

\* t.startsWith('#') ? t : `#${t}`
AsHashtag(topic) ==
    IF topic.hash THEN topic.name ELSE [topic.name EXCEPT ![1] = @ + 1]

getHashtags(categoryId, trending) ==
    LET aiTrending == SelectSeq(trending, LAMBDA t : t.ai)
    IN  IF Len(aiTrending) >= 2
        THEN LET first == Slice0(aiTrending, 3)
             IN  [i \in DOMAIN first |-> AsHashtag(first[i])]
        ELSE DEFAULT_HASHTAGS(categoryId)

selectTone(postNumber) ==
    << "insight", "question", "contrarian", "observation", "witty" >>[((postNumber - 1) % 5) + 1]

hookTemplates(tone) ==
    CASE tone = "insight" -> <<
           [prefix |-> << >>, body |-> "mainClaim"],
           [prefix |-> << 4, 4, 6, 6 >>, body |-> "businessImplications"],
           [prefix |-> << 3, 5, 6, 3, 9 >>, body |-> "mainClaim"] >>
      [] tone = "question" -> <<
           [prefix |-> << 2, 4, 3, 6, 2, 3 >>, body |-> "mainClaim"],
           [prefix |-> << 4, 4, 4, 4, 3, 4, 9 >>, body |-> "mainClaim"],
           [prefix |-> << 3, 3, 6, 9, 2, 5 >>, body |-> "mainClaim"] >>
      [] tone = "contrarian" -> <<
           [prefix |-> << 3, 5 >>, body |-> "businessImplications"],
           [prefix |-> << 10, 7, 3, 5, 5 >>, body |-> "mainClaim"],
           [prefix |-> << 3, 4, 5, 5, 4, 3, 6 >>, body |-> "mainClaim"] >>
      [] tone = "observation" -> <<
           [prefix |-> << 11, 12 >>, body |-> "mainClaim"],
           [prefix |-> << 5, 9 >>, body |-> "mainClaim"],
           [prefix |-> << 4, 6, 2, 10 >>, body |-> "mainClaim"] >>
      [] tone = "witty" -> <<
           [prefix |-> << 2, 6, 3, 13, 4, 5, 6, 3, 6, 10 >>, body |-> "none"],
           [prefix |-> << 10, 7, 5, 3, 6, 3, 4, 10, 2, 3, 10 >>, body |-> "none"],
           [prefix |-> << 3, 2, 5, 5, 5, 4, 2, 4 >>, body |-> "none"] >>

\* Math.floor(Math.random() * n), Math.random() being tenths / 10
RandomIndex(tenths, n) == (tenths * n) \div 10

\* context.mainClaim || article.headline
MainClaim(article, context) ==
    IF context.mainClaim # << >> THEN context.mainClaim ELSE article.headline

\* context.businessImplications || article.summary
Implications(article, context) ==
    IF context.businessImplications # << >> THEN context.businessImplications
    ELSE article.summary

createStandardTweet(article, context, tone, hashtags, tenths) ==
    LET hooks == hookTemplates(tone)
        template == hooks[RandomIndex(tenths, Len(hooks)) + 1]
        hook == template.prefix \o
                (CASE template.body = "mainClaim" -> MainClaim(article, context)
                   [] template.body = "businessImplications" ->
                          Implications(article, context)
                   [] OTHER -> << >>)
        truncatedHook == truncateText(hook, 200)
    IN  << TextLine(truncatedHook), UrlLine(article.url),
           TagsLine(Slice0(hashtags, 3)) >>

\* the words of the text of the quote
quoteText(id) ==
    CASE id = 1 -> << 3, 6, 5, 10, 4, 8, 4, 3, 2, 11, 4, 8, 5, 3, 5, 8, 13 >>
      [] id = 2 -> << 2, 4, 2, 8, 5, 10, 4, 12, 6, 3, 6, 4, 7, 3, 2, 10, 6, 10, 2,
                      1, 6, 3, 1, 8 >>
      [] id = 3 -> << 3, 7, 3, 4, 2, 5, 7, 6, 3, 2, 10, 2, 7, 2, 11, 10, 2, 3, 3,
                      6, 6 >>
      [] id = 4 -> << 5, 5, 4, 3, 8, 2, 2, 2, 3, 2, 1, 5, 3, 2, 10, 4, 3, 4, 8, 4,
                      8, 3, 4, 5, 4, 4, 2, 4, 4, 7 >>
      [] id = 5 -> << 3, 4, 5, 8, 10, 5, 4, 4, 1, 5, 2, 7, 3, 2, 10, 5, 3, 3, 4, 3,
                      6, 4, 2, 2, 10, 13 >>

\* the number of words of the quote up to its first '. '
firstSentenceWords(id) ==
    CASE id = 1 -> 4 [] id = 2 -> 13 [] id = 3 -> 8 [] id = 4 -> 12 [] id = 5 -> 12

transitionPhrases(id) ==
    CASE id = 1 -> << << 4, 9, 11, 3 >>,
                      << 4, 2, 7, 4, 1, 4, 4, 1, 3 >>,
                      << 4, 11, 10, 2, 6, 4 >>,
                      << 6, 4, 4, 6, 5 >>,
                      << 3, 4, 5, 5 >> >>
      [] id = 2 -> << << 3, 11, 12, 3, 6 >>,
                      << 2, 4, 7, 4, 3, 7, 4, 9 >>,
                      << 4, 2, 1, 7, 5 >>,
                      << 3, 8, 5, 3, 3, 3, 5 >>,
                      << 5, 9, 7, 5 >> >>
      [] id = 3 -> << << 3, 4, 6, 3, 7 >>,
                      << 4, 6, 4, 5, 4, 7 >>,
                      << 6, 3, 10, 3, 4, 11, 3 >>,
                      << 6, 3, 7, 4, 5 >>,
                      << 3, 6, 5, 4, 2, 6 >> >>
      [] id = 4 -> << << 4, 6, 3, 12, 9 >>,
                      << 3, 4, 8, 4, 7 >>,
                      << 4, 2, 2, 6, 5, 11, 4, 5, 6 >>,
                      << 6, 3, 8, 6 >>,
                      << 4, 4, 6, 5, 3, 4, 5 >> >>
      [] id = 5 -> << << 10, 2, 5, 10 >>,
                      << 4, 2, 4, 3, 10 >>,
                      << 4, 7, 2, 4, 5, 5 >>,
                      << 3, 6, 2, 7, 5 >>,
                      << 4, 6, 2, 9, 7 >> >>

getRandomTransition(quote, tenths) ==
    LET phrases == transitionPhrases(quote)
    IN  phrases[RandomIndex(tenths, Len(phrases)) + 1]

\* sentences = quoteText.split(/\.\s+/); sentences[0] lacks its full stop
extractQuoteSnippet(quote) ==
    LET text == quoteText(quote)
        first == SubSeq(text, 1, firstSentenceWords(quote))
    IN  IF Len(first) < Len(text) /\ TextLength(first) - 1 <= 80 THEN first
        ELSE truncateText(text, 80)

\* `"${quoteSnippet}"`
Quoted(text) ==
    IF Len(text) = 1 THEN << text[1] + 2 >>
    ELSE [text EXCEPT ![1] = @ + 1, ![Len(text)] = @ + 1]

\* post.mabQuote is not a field of a scheduled post: the quote of the day
createQuoteTweet(article, context, quoteOfDay, hashtags, tenths) ==
    LET transition == getRandomTransition(quoteOfDay, tenths)
        quoteSnippet == extractQuoteSnippet(quoteOfDay)
        contextSnippet == truncateText(MainClaim(article, context), 80)
        quoteHashtags == Slice0(hashtags, 2) \o << << 11 >> >>
    IN  << TextLine(contextSnippet),
           TextLine(transition \o Quoted(quoteSnippet)),
           UrlLine(article.url),
           TagsLine(quoteHashtags) >>

\* tweet.replace(/#\w+\s*/g, '').trim(): every hashtag loses its first word
StripHashtags(tweet) ==
    LET last == tweet[Len(tweet)]
        rest == Join([i \in DOMAIN last.tags |-> Tail(last.tags[i])])
    IN  IF last.kind # "hashtags" THEN tweet
        ELSE IF rest = << >> THEN SubSeq(tweet, 1, Len(tweet) - 1)
        ELSE [tweet EXCEPT ![Len(tweet)] = TextLine(rest)]

shortenTweet(tweet, hashtags) ==
    IF calculateTweetLength(tweet) <= MAX_TWEET_LENGTH THEN tweet
    ELSE LET shortened == Append(StripHashtags(tweet), TagsLine(Slice0(hashtags, 2)))
         IN  IF calculateTweetLength(shortened) <= MAX_TWEET_LENGTH THEN shortened
             ELSE LET excess == calculateTweetLength(shortened) - MAX_TWEET_LENGTH
                      line == shortened[1].words
                  IN  [shortened EXCEPT ![1].words =
                           truncateText(line, TextLength(line) - excess - 10)]

\* getArticleSummary threw (None): the context is made of the article
createTweetContent(post, article, summaryResult, trending, quoteOfDay, tenths) ==
    LET articleContext ==
            IF summaryResult = None
            THEN [mainClaim |-> article.headline,
                  businessImplications |-> article.summary]
            ELSE summaryResult[1]
        tone == selectTone(post.postNumber)
        hashtags == getHashtags(post.categoryId, trending)
        tweetText ==
            IF post.includeQuote
            THEN createQuoteTweet(article, articleContext, quoteOfDay, hashtags, tenths)
            ELSE createStandardTweet(article, articleContext, tone, hashtags, tenths)
    IN  [text |-> IF calculateTweetLength(tweetText) > MAX_TWEET_LENGTH
                  THEN shortenTweet(tweetText, hashtags) ELSE tweetText,
         hashtags |-> hashtags,
         tone |-> tone]

\* a text of n words of w characters
Words(n, w) == [i \in 1..n |-> w]

\* the longest headline or summary, in words
MaxWords == 40

Texts == { << 5, 2, 3 >>, Words(12, 5), Words(MaxWords, 6), << 90 >> }

TweetArticles ==
    { [headline |-> h, summary |-> s, url |-> u] :
        h \in Texts, s \in Texts, u \in { 20, 150 } }

SummaryResults ==
    { None,
      Some([mainClaim |-> << 5, 2, 3 >>, businessImplications |-> Words(12, 5)]),
      Some([mainClaim |-> Words(MaxWords, 6),
            businessImplications |-> Words(MaxWords, 6)]) }

\* what getTrendingTopics returns: nothing; its own fallback list; topics
\* that are phrases; longer phrases; two long one-word topics
TrendingLists ==
    { << >>,
      << Topic(<< 3 >>, TRUE, TRUE), Topic(<< 23 >>, TRUE, TRUE),
         Topic(<< 16 >>, TRUE, TRUE), Topic(<< 9 >>, TRUE, TRUE),
         Topic(<< 11 >>, TRUE, FALSE), Topic(<< 13 >>, TRUE, FALSE) >>,
      << Topic(<< 10, 12 >>, FALSE, TRUE), Topic(<< 5, 4 >>, FALSE, FALSE),
         Topic(<< 7, 8 >>, FALSE, TRUE), Topic(<< 4, 7 >>, FALSE, TRUE) >>,
      << Topic(<< 2, 10, 2, 3, 8, 5 >>, FALSE, TRUE),
         Topic(<< 7, 8, 6, 3, 10 >>, FALSE, TRUE) >>,
      << Topic(<< 60 >>, TRUE, TRUE), Topic(<< 60 >>, TRUE, TRUE) >> }

TweetDays == { [y |-> 2026, m |-> 1, d |-> d, h |-> 14] : d \in 5..9 }

TweetInit ==
    /\ now \in TweetDays
    /\ scheduler = NewScheduler
    /\ lastOp = [op |-> "new", articles |-> << >>, postId |-> "", repeat |-> 1]
    /\ PosterIdle
    /\ ScraperIdle
    /\ call \in { [fn |-> "none",
                   in |-> [post |-> POSTING_SCHEDULE[k], article |-> a,
                           summaryResult |-> r, trending |-> t, tenths |-> u],
                   out |-> << >>] :
                    k \in DOMAIN POSTING_SCHEDULE, a \in TweetArticles,
                    r \in SummaryResults, t \in TrendingLists,
                    u \in { 0, 2, 4, 6, 8 } }

ApplyCreateTweetContent ==
    /\ call.fn = "none"
    /\ call' = [fn |-> "createTweetContent", in |-> call.in,
                out |-> createTweetContent(call.in.post, call.in.article,
                                           call.in.summaryResult, call.in.trending,
                                           getQuoteForDay(now), call.in.tenths)]
    /\ UNCHANGED << schedVars, posterVars, scraperVars >>

TweetNext == ApplyCreateTweetContent

SpecTweet == TweetInit /\ [][TweetNext]_vars

\* C20: the text returned by createTweetContent, for a standard post and
\* for a quote post, has an effective length of at most 280 characters, a
\* URL counting for 23, whatever the lengths of the headline, the summary,
\* the URL and the hashtags.
C20_WithinLengthBudget ==
    call.fn = "createTweetContent" =>
        calculateTweetLength(call.out.text) <= MAX_TWEET_LENGTH


\* ---------------------------------------------------------------------
\* deduplicateArticles (validator.js) on URLs that differ by letter case,
\* trailing slash and query string
\* ---------------------------------------------------------------------

\* the longest URL, in characters, and the longest batch, in articles
MaxUrlLength == 4
MaxBatch == 2

UrlCharacters == { "a", "A", "/", "?" }

\* the empty URL, and the URLs that start with a letter
BatchUrls ==
    { << >> } \cup
    UNION { { u \in [1..n -> UrlCharacters] : u[1] \in { "a", "A" } } :
              n \in 1..MaxUrlLength }

Batches ==
    UNION { [1..n -> { [url |-> u, category |-> "ai-providers"] : u \in BatchUrls }] :
              n \in 1..MaxBatch }

DedupInit ==
    /\ now = ScrapeInstant
    /\ scheduler = NewScheduler
    /\ lastOp = [op |-> "new", articles |-> << >>, postId |-> "", repeat |-> 1]
    /\ PosterIdle
    /\ ScraperIdle
    /\ call \in { [fn |-> "none", in |-> b, out |-> << >>] : b \in Batches }

ApplyDeduplicateArticles ==
    /\ call.fn = "none"
    /\ call' = [fn |-> "deduplicateArticles", in |-> call.in,
                out |-> deduplicateArticles(call.in)]
    /\ UNCHANGED << schedVars, posterVars, scraperVars >>

DedupNext == ApplyDeduplicateArticles

SpecDedup == DedupInit /\ [][DedupNext]_vars

\* the URL without its query string, then without a trailing slash, in
\* lower case
CanonicalUrl(url) == toLowerCase(removeTrailingSlash(removeQuery(url)))

\* C21: the output of deduplicateArticles holds at most one article per
\* URL up to letter case, a trailing slash and a query string, in any
\* combination of the three.
C21_OnePerNormalizedUrl ==
    call.fn = "deduplicateArticles" =>
        \A i, j \in DOMAIN call.out :
            i < j => CanonicalUrl(call.out[i].url) # CanonicalUrl(call.out[j].url)


\* ---------------------------------------------------------------------
\* TwitterService.isDuplicate and calculateSimilarity (twitter.js).  A text
\* is read as the set of its whitespace-separated tokens, which is all the
\* comparison uses.
\* ---------------------------------------------------------------------

\* the recent tweets getRecentTweets returns
MaxRecent == 1

\* "AI" is "ai" in upper case; "https://t.co/x" is a URL
Tokens == { "ai", "AI", "is", "here", "now", "today", "https://t.co/x" }

TokenTexts == SUBSET Tokens

\* getRecentTweets throws (None), or returns at most MaxRecent tweets
RecentOutcomes ==
    { None } \cup
    { Some(l) : l \in UNION { [1..n -> TokenTexts] : n \in 0..MaxRecent } }

\* text.toLowerCase().replace(/https?:\/\/[^\s]+/g, '').trim().split(/\s+/)
\* as a Set; the empty string splits into one empty token
NormalizedWords(text) ==
    LET words == { IF t = "AI" THEN "ai" ELSE t : t \in text \ { "https://t.co/x" } }
    IN  IF words = { } THEN { "" } ELSE words

\* intersection.size / union.size, as numerator and denominator
calculateSimilarity(words1, words2) ==
    [num |-> Cardinality(words1 \cap words2), den |-> Cardinality(words1 \cup words2)]

\* similarity > 0.8
isDuplicate(text, recentOutcome) ==
    IF recentOutcome = None THEN FALSE
    ELSE LET recentTweets == recentOutcome[1]
         IN  \E k \in DOMAIN recentTweets :
                 LET s == calculateSimilarity(NormalizedWords(text),
                                              NormalizedWords(recentTweets[k]))
                 IN  s.num * 10 > s.den * 8

DuplicateInit ==
    /\ now = ScrapeInstant
    /\ scheduler = NewScheduler
    /\ lastOp = [op |-> "new", articles |-> << >>, postId |-> "", repeat |-> 1]
    /\ PosterIdle
    /\ ScraperIdle
    /\ call \in { [fn |-> "none", in |-> [text |-> t, recent |-> r], out |-> << >>] :
                    t \in TokenTexts, r \in RecentOutcomes }

\* the duplicate guard of PosterAgent.run: isDuplicate(tweetContent.text)
ApplyIsDuplicate ==
    /\ call.fn = "none"
    /\ call' = [fn |-> "isDuplicate", in |-> call.in,
                out |-> isDuplicate(call.in.text, call.in.recent)]
    /\ UNCHANGED << schedVars, posterVars, scraperVars >>

DuplicateNext == ApplyIsDuplicate

SpecDuplicate == DuplicateInit /\ [][DuplicateNext]_vars

\* C22: when the candidate text has a word-set similarity of 0.8 or more
\* with a recent tweet, the duplicate check answers true (the answer on
\* which PosterAgent.run regenerates the text once).
C22_DuplicateAtThreshold ==
    (/\ call.fn = "isDuplicate"
     /\ call.in.recent # None
     /\ \E k \in DOMAIN call.in.recent[1] :
          LET s == calculateSimilarity(NormalizedWords(call.in.text),
                                       NormalizedWords(call.in.recent[1][k]))
          IN  s.num * 10 >= s.den * 8)
    => call.out = TRUE


\* ---------------------------------------------------------------------
\* getQuoteForDay (mab-quotes.js) on every day of the years FirstYear to
\* LastYear, at the first and at the last hour of the day
\* ---------------------------------------------------------------------

QuoteDates ==
    { [y |-> y, m |-> m, d |-> d, h |-> h] :
        y \in FirstYear..LastYear, m \in 1..12, d \in 1..31, h \in { 0, 23 } }

QuoteInit ==
    /\ now = ScrapeInstant
    /\ scheduler = NewScheduler
    /\ lastOp = [op |-> "new", articles |-> << >>, postId |-> "", repeat |-> 1]
    /\ PosterIdle
    /\ ScraperIdle
    /\ call \in { [fn |-> "none", in |-> date, out |-> << >>] :
                    date \in { t \in QuoteDates : t.d <= DaysInMonth(t.y, t.m) } }

ApplyGetQuoteForDay ==
    /\ call.fn = "none"
    /\ call' = [fn |-> "getQuoteForDay", in |-> call.in, out |-> getQuoteForDay(call.in)]
    /\ UNCHANGED << schedVars, posterVars, scraperVars >>

QuoteNext == ApplyGetQuoteForDay

SpecQuote == QuoteInit /\ [][QuoteNext]_vars

\* C23: getQuoteForDay gives the quote at index (day of the year - 1) mod 5,
\* January 1 being day 1: quote 1 on January 1 and on January 6 of every
\* year, and one of the quotes 1..5 on every date.
C23_QuoteRotation ==
    call.fn = "getQuoteForDay" =>
        /\ call.out \in 1..5
        /\ call.out = ((DayOfYear(call.in.y, call.in.m, call.in.d) - 1) % 5) + 1
        /\ (call.in.m = 1 /\ call.in.d \in { 1, 6 }) => call.out = 1

\* the last hour of January 6 of a year: quote 1 again
C23_Witness ==
    /\ call.fn = "getQuoteForDay"
    /\ call.in.m = 1
    /\ call.in.d = 6
    /\ call.in.h = 23
    /\ call.out = 1


\* ---------------------------------------------------------------------
\* calculateTweetLength (text-utils.js) on texts with several URLs
\* ---------------------------------------------------------------------

\* the paragraphs of a text
MaxLines == 3

\* a paragraph of words, or a URL of 10, 23 or 150 characters
LengthLines ==
    { TextLine(<< 5 >>), TextLine(<< 5, 3 >>), TextLine(<< 140, 1 >>),
      UrlLine(10), UrlLine(23), UrlLine(150) }

LengthTexts == UNION { [1..n -> LengthLines] : n \in 0..MaxLines }

LengthInit ==
    /\ now = ScrapeInstant
    /\ scheduler = NewScheduler
    /\ lastOp = [op |-> "new", articles |-> << >>, postId |-> "", repeat |-> 1]
    /\ PosterIdle
    /\ ScraperIdle
    /\ call \in { [fn |-> "none", in |-> t, out |-> << >>] : t \in LengthTexts }

ApplyCalculateTweetLength ==
    /\ call.fn = "none"
    /\ call' = [fn |-> "calculateTweetLength", in |-> call.in,
                out |-> calculateTweetLength(call.in)]
    /\ UNCHANGED << schedVars, posterVars, scraperVars >>

LengthNext == ApplyCalculateTweetLength

SpecLength == LengthInit /\ [][LengthNext]_vars

\* the paragraphs of a text that are URLs
UrlLines(text) == { k \in DOMAIN text : text[k].kind = "url" }

\* the characters of a text outside its URLs
RECURSIVE NonUrlCharacters(_)
NonUrlCharacters(text) ==
    IF text = << >> THEN 0
    ELSE (IF Head(text).kind = "url" THEN 0 ELSE TextLength(Head(text).words))
         + (IF Len(text) > 1 THEN 2 ELSE 0)
         + NonUrlCharacters(Tail(text))

\* C24: calculateTweetLength returns the number of characters outside the
\* URLs plus 23 for each URL, whatever the lengths of the URLs.
C24_UrlsCountAs23 ==
    call.fn = "calculateTweetLength" =>
        call.out = NonUrlCharacters(call.in) + 23 * Cardinality(UrlLines(call.in))

\* a text with a URL of 10 and a URL of 150 characters
C24_Witness ==
    /\ call.fn = "calculateTweetLength"
    /\ Cardinality(UrlLines(call.in)) = 2
    /\ \E i, j \in UrlLines(call.in) :
          call.in[i].words = << 10 >> /\ call.in[j].words = << 150 >>
    /\ call.out = NonUrlCharacters(call.in) + 46


(***************************************************************************)
(* SpecAlert: the two pipeline stages that send an alert when they fail.   *)
(* A behaviour is either one PosterAgent whose run is called (the mail of  *)
(* its catch block is EmailService.sendErrorAlert) or one run of the       *)
(* ScraperAgent over the categories (the mail of a category whose every    *)
(* source failed is EmailService.sendCriticalFailure).                     *)
(***************************************************************************)
AlertInit == AgentInit \/ ScraperInit

\* a PosterAgent exists
Posting == inv # << >>

AlertNext ==
    \/ Posting /\ AttemptsLeft /\ AgentRun(1, 1)
    \/ Posting /\ Summary(1)
    \/ Posting /\ Hashtags(1)
    \/ Posting /\ DupCheck(1)
    \/ Posting /\ PublishReturn(1)
    \/ Posting /\ LogPosted(1)
    \/ Posting /\ ErrorAlert(1)
    \/ Posting /\ ResultTaken(1)
    \/ ~Posting /\ RunScrapingAndFiltering
    \/ PrimaryReturn
    \/ DelayDone
    \/ BackupReturn
    \/ PreviousDayReturn
    \/ AlertReturn
    \/ LogResults
    \/ RunAlert
    \/ FilterReturn

SpecAlert == AlertInit /\ [][AlertNext]_vars

\* C25: a failure while sending an alert never fails the calling stage.
\* The step that ends the alert of PosterAgent.run's catch block ends run
\* with a result, not with a throw, and but for the note of whether the
\* mail went out the result is the one run had before the alert; the step
\* that ends the alert of scrapeCategory makes scrapeCategory return the
\* result it had before the alert.
C25_AlertFailureNeverFailsStage ==
    [][ /\ (Posting /\ inv[1].pc = "alert" /\ inv'[1].pc # "alert") =>
              /\ inv'[1].alert \in { "sent", "not-sent" }
              /\ [inv'[1] EXCEPT !.alert = "sent"] =
                     [inv[1] EXCEPT !.pc = "done", !.alert = "sent"]
        /\ (scrape.pc = "alert" /\ scrape'.pc # "alert") =>
              /\ lastScrape'.returned = "returned"
              /\ lastScrape'.result = scrape.result
      ]_vars

\* the publish call failed, the alert mail of the catch block did not go
\* out, and run returned its failure
C25_Witness ==
    /\ Posting
    /\ inv[1].pc = "done"
    /\ inv[1].alert = "not-sent"
    /\ inv[1].calledPublish
    /\ ~inv[1].success
    /\ inv[1].error = "postTweet failed"


\* C26: a persistence failure while logging never changes the outcome of
\* the action being logged.  A run of the PosterAgent whose publish call
\* returned a tweet id has returned success and has sent no failure alert;
\* a run of the ScraperAgent in which every category was collected has
\* returned success and its articles have gone to the filter.
C26_LoggingNeverChangesOutcome ==
    /\ \A p \in DOMAIN inv :
          (inv[p].pc = "done" /\ inv[p].tweetId # "") =>
              inv[p].success /\ inv[p].alert = "none"
    /\ (/\ srun.pc = "done"
        /\ \A i \in DOMAIN CATEGORIES :
              /\ CATEGORIES[i] \in DOMAIN srun.categories
              /\ srun.categories[CATEGORIES[i]].success) =>
          srun.success /\ srun.filtering # "none"


(***************************************************************************)
(* SpecNewsApi: one NewsApiService, the backup provider, on which          *)
(* searchNews is called again and again.  The service counts the requests  *)
(* it makes and refuses to make more than maxRequestsPerDay of them.       *)
(***************************************************************************)
\* config.newsapi.maxRequestsPerDay
maxRequestsPerDay == 100

\* the searchNews calls made on the service
MaxSearches == 35

\* the queries of a category: every category has three
getQueriesForCategory(categoryId) == << "query-1", "query-2", "query-3" >>

\* what fetch returns: an HTTP error, a body whose status is not ok, or a
\* body with articles; an article is its url, which may be missing
NewsResponses ==
    { [ok |-> FALSE, status |-> "error", articles |-> << >>],
      [ok |-> TRUE, status |-> "error", articles |-> << >>],
      [ok |-> TRUE, status |-> "ok", articles |-> << >>],
      [ok |-> TRUE, status |-> "ok",
       articles |-> << << "a" >>, << "A", "/" >>, << >> >>] }

transformArticle(article, categoryId) ==
    [url |-> article, category |-> categoryId]

\* NewsApiService.deduplicateArticles: an article without url is dropped,
\* and so is one whose url, in lower case and without a slash at its end,
\* was seen before
NewsApiService_deduplicateArticles(articles) ==
    LET key(url) == removeTrailingSlash(toLowerCase(url))
        RECURSIVE Build(_)
        Build(i) ==
            IF i = 0 THEN << >>
            ELSE IF /\ articles[i].url # << >>
                    /\ \A j \in 1..(i - 1) :
                          articles[j].url = << >> \/
                          key(articles[j].url) # key(articles[i].url)
                 THEN Append(Build(i - 1), articles[i])
                 ELSE Build(i - 1)
    IN  Build(Len(articles))

\* searchNews after a query: the next query, or, after the last one, the
\* articles are deduplicated and returned
AfterQuery(s, allArticles) ==
    IF s.query < Len(getQueriesForCategory(s.categoryId))
    THEN [s EXCEPT !.pc = "request", !.query = @ + 1, !.allArticles = allArticles]
    ELSE [s EXCEPT !.pc = "idle", !.allArticles = allArticles, !.ended = "returned",
                   !.returned = NewsApiService_deduplicateArticles(allArticles)]

NewsApiInit ==
    /\ now = ScrapeInstant
    /\ scheduler = NewScheduler
    /\ lastOp = [op |-> "new", articles |-> << >>, postId |-> "", repeat |-> 1]
    /\ PosterIdle
    /\ ScraperIdle
    /\ PureIdle

\* searchNews(categoryId) up to its first request
SearchNews(categoryId) ==
    /\ newsapi.pc = "idle"
    /\ newsapi.searches < MaxSearches
    /\ newsapi' = [newsapi EXCEPT !.pc = "request", !.searches = @ + 1,
                                  !.categoryId = categoryId, !.query = 1,
                                  !.allArticles = << >>,
                                  !.countAtStart = newsapi.requestCount,
                                  !.sent = 0, !.ended = "none",
                                  !.returned = << >>]
    /\ UNCHANGED << schedVars, posterVars, pureVars, scrape, lastScrape, srun >>

\* request up to fetch: at the limit it throws, and searchNews catches the
\* error and goes on with the next query; below the limit the request is
\* counted and sent
Request ==
    /\ newsapi.pc = "request"
    /\ newsapi' = IF newsapi.requestCount >= maxRequestsPerDay
                  THEN AfterQuery(newsapi, newsapi.allArticles)
                  ELSE [newsapi EXCEPT !.pc = "fetch", !.requestCount = @ + 1,
                                       !.sent = @ + 1]
    /\ UNCHANGED << schedVars, posterVars, pureVars, scrape, lastScrape, srun >>

\* fetch returned: an HTTP error is thrown by request and caught by
\* searchNews; the articles of a body whose status is ok are transformed
\* and pushed
FetchReturn ==
    /\ newsapi.pc = "fetch"
    /\ \E response \in NewsResponses :
        newsapi' =
            IF response.ok /\ response.status = "ok"
            THEN AfterQuery(newsapi, newsapi.allArticles \o
                     [i \in DOMAIN response.articles |->
                         transformArticle(response.articles[i], newsapi.categoryId)])
            ELSE AfterQuery(newsapi, newsapi.allArticles)
    /\ UNCHANGED << schedVars, posterVars, pureVars, scrape, lastScrape, srun >>

NewsApiNext ==
    \/ \E i \in DOMAIN CATEGORIES : SearchNews(CATEGORIES[i])
    \/ Request
    \/ FetchReturn

SpecNewsApi == NewsApiInit /\ [][NewsApiNext]_vars

\* C27: when the daily request quota is exhausted, searchNews fails with an
\* error instead of returning an empty article list, and no further HTTP
\* request is sent: a searchNews call that was made with the quota used up
\* and is over has thrown, and has sent nothing.
C27_FailsClosedWhenQuotaExhausted ==
    (/\ newsapi.pc = "idle"
     /\ newsapi.ended # "none"
     /\ newsapi.countAtStart >= maxRequestsPerDay) =>
        /\ newsapi.ended = "thrown"
        /\ newsapi.sent = 0


(***************************************************************************)
(* SpecDispatch: the cron handler of index.js at minute 0 of every hour of *)
(* the days of March and November and of a day of every other season.  It  *)
(* starts the posting phase at the hour of a time slot, found with the     *)
(* isEasternDST of date-utils.js; the posting phase resolves its post with *)
(* SchedulerService.getCurrentPost, which finds the time slot with the     *)
(* isEasternDST of posting-schedule.js.                                    *)
(***************************************************************************)
TriggerTimes ==
    { [y |-> y, m |-> m, d |-> d, h |-> h] :
        y \in FirstYear..LastYear, m \in {3, 11}, d \in 1..30, h \in 0..23 }
    \cup { [y |-> y, m |-> m, d |-> 15, h |-> h] :
             y \in FirstYear..LastYear, m \in {1, 7}, h \in 0..23 }

\* the phase the cron handler runs at minute 0 of the hour, and the time
\* slot of a posting phase
scheduled(date) ==
    LET utcHour == date.h
        dayOfWeek == Weekday(date.y, date.m, date.d)
        isDST == isEasternDST_utils(date)
        postingSlot == getTimeSlotForUTCHour(utcHour, isDST)
    IN  IF dayOfWeek = 0 /\ utcHour = (IF isDST THEN 13 ELSE 14)
        THEN [phase |-> "reminder", slot |-> None]
        ELSE IF dayOfWeek = 1 /\ utcHour = (IF isDST THEN 10 ELSE 11)
        THEN [phase |-> "insights", slot |-> None]
        ELSE IF ~isWeekday(date)
        THEN [phase |-> "none", slot |-> None]
        ELSE IF postingSlot # None
        THEN [phase |-> "posting", slot |-> postingSlot]
        ELSE [phase |-> "none", slot |-> None]

\* runPosting up to the post PosterAgent.run resolves: the schedule of the
\* day is made and the current post is looked up
runPosting(date) ==
    getCurrentPost(initializeDailySchedule(NewScheduler, date), date)

DispatchInit ==
    /\ now = ScrapeInstant
    /\ scheduler = NewScheduler
    /\ lastOp = [op |-> "new", articles |-> << >>, postId |-> "", repeat |-> 1]
    /\ PosterIdle
    /\ ScraperIdle
    /\ call \in { [fn |-> "none", in |-> date, out |-> << >>] : date \in TriggerTimes }

\* the cron handler runs at the trigger time
ApplyScheduled ==
    /\ call.fn = "none"
    /\ LET dispatched == scheduled(call.in)
       IN  call' = [fn |-> "scheduled", in |-> call.in,
                    out |-> [phase |-> dispatched.phase, slot |-> dispatched.slot,
                             post |-> IF dispatched.phase = "posting"
                                      THEN runPosting(call.in) ELSE None]]
    /\ UNCHANGED << schedVars, posterVars, scraperVars >>

DispatchNext == ApplyScheduled

SpecDispatch == DispatchInit /\ [][DispatchNext]_vars

\* C28: at every weekday trigger time at which the cron handler starts the
\* posting phase for a slot, getCurrentPost resolves the Scheduled Post of
\* that slot, and the two isEasternDST functions agree.
C28_DispatcherAndSchedulerAgree ==
    (call.fn = "scheduled" /\ call.out.phase = "posting") =>
        /\ call.out.post =
              Some(PostId(getTodayString(call.in), call.out.slot[1].postNumber))
        /\ isEasternDST(call.in) = isEasternDST_utils(call.in)


\* C29: in every reachable state of a SchedulerService, a post id is in
\* postedToday if and only if the queue holds a post with that id whose
\* status is posted.
C29_PostedTodayMatchesQueue ==
    \A postId \in scheduler.postedToday \cup DOMAIN scheduler.queue :
        (postId \in scheduler.postedToday) <=>
            (postId \in DOMAIN scheduler.queue /\
             scheduler.queue[postId].status = "posted")


\* the calls of a stage among the calls scrapeCategory awaited
CallsOf(stage, calls) == SelectSeq(calls, LAMBDA c : c.stage = stage)

\* C30: within one scrapeCategory call the primary provider is called at
\* most MAX_RETRIES + 1 = 3 times; a retry happens only after a failed
\* call, and only after the retry delay; after the third failure control
\* passes to the backup stage.  The calls of the call in flight and of the
\* call that ended last: the primary calls come first, there are at most
\* three, every one but the last failed, and the backup stage after a
\* failed primary call comes after three of them.  A step to the delay is
\* a failed primary call, a step to a retry is the end of the delay, and
\* the failure of the third attempt is a step to the backup stage.
C30_PrimaryRetryPolicy ==
    /\ [](\A calls \in { scrape.calls, lastScrape.calls } :
            LET primary == CallsOf("primary", calls)
            IN  /\ Len(primary) <= MAX_RETRIES + 1
                /\ \A i \in 1..Len(primary) : calls[i].stage = "primary"
                /\ \A i \in 1..(Len(primary) - 1) : ~primary[i].ok
                /\ (/\ CallsOf("backup", calls) # << >>
                    /\ ~primary[Len(primary)].ok) =>
                        Len(primary) = MAX_RETRIES + 1)
    /\ [][ /\ (scrape'.pc = "delay" /\ scrape.pc # "delay") =>
                 /\ scrape.pc = "primary"
                 /\ scrape'.attempt = scrape.attempt + 1
                 /\ scrape'.attempt <= MAX_RETRIES
                 /\ Len(scrape'.calls) = Len(scrape.calls) + 1
                 /\ ~scrape'.calls[Len(scrape'.calls)].ok
           /\ (scrape'.pc = "primary" /\ scrape'.attempt > 0 /\ scrape' # scrape) =>
                 /\ scrape.pc = "delay"
                 /\ scrape'.calls = scrape.calls
           /\ (/\ scrape.pc = "primary"
               /\ scrape.attempt = MAX_RETRIES
               /\ scrape'.result.categoryId = scrape.result.categoryId
               /\ Len(scrape'.calls) = Len(scrape.calls) + 1
               /\ ~scrape'.calls[Len(scrape'.calls)].ok) =>
                 scrape'.pc = "backup"
         ]_vars

\* the primary provider failed three times and the backup provider was
\* called
C30_Witness ==
    /\ scrape.pc = "previous-day"
    /\ Len(CallsOf("primary", scrape.calls)) = MAX_RETRIES + 1
    /\ \A i \in 1..(MAX_RETRIES + 1) : ~scrape.calls[i].ok
    /\ Len(CallsOf("backup", scrape.calls)) = 1
    /\ scrape.attempt = MAX_RETRIES


\* the articles of a batch that came from a source
From(apiUsed, articles) == SelectSeq(articles, LAMBDA a : a.apiUsed = apiUsed)

\* C31: when scrapeCategory accepts at the backup stage, the source label
\* is combined exactly when both the primary and the backup provider
\* contributed at least one article to the accepted batch, and newsapi
\* (backup only) otherwise.
C31_CombinedLabel ==
    LET r == lastScrape.result
        calls == lastScrape.calls
    IN  (/\ lastScrape.returned = "returned"
         /\ r.success
         /\ calls[Len(calls)].stage = "backup") =>
            /\ Len(r.articles) >= MIN_ARTICLES_PER_CATEGORY
            /\ r.apiUsed =
                  IF /\ From("perplexity", r.articles) # << >>
                     /\ From("newsapi", r.articles) # << >>
                  THEN "combined" ELSE "newsapi"

\* a batch of three primary and two backup articles was accepted
C31_Witness ==
    /\ lastScrape.returned = "returned"
    /\ lastScrape.result.apiUsed = "combined"
    /\ Len(From("perplexity", lastScrape.result.articles)) = 3
    /\ Len(From("newsapi", lastScrape.result.articles)) = 2


\* C32: scrapeCategory records the source label previous-day only if the
\* primary and the backup provider together contributed no article to the
\* returned batch: the batch holds articles of yesterday's sheet only.
C32_PreviousDayLabel ==
    \A c \in { lastScrape.result } \cup
             { srun.categories[id] : id \in DOMAIN srun.categories } :
        c.apiUsed = "previous-day" =>
            /\ c.success
            /\ c.articles # << >>
            /\ From("perplexity", c.articles) = << >>
            /\ From("newsapi", c.articles) = << >>

\* the primary provider returned three articles, the backup provider
\* failed, and the two articles of yesterday's sheet were returned
C32_Witness ==
    /\ lastScrape.returned = "returned"
    /\ lastScrape.result.apiUsed = "previous-day"
    /\ Len(lastScrape.result.articles) = 2
    /\ lastScrape.calls[1].ok /\ lastScrape.calls[1].count = 3
    /\ ~lastScrape.calls[2].ok


(***************************************************************************)
(* SpecSlot: getTimeSlotForUTCHour applied to every hour of the UTC day,   *)
(* with the flag true, false or left out (its default is false).           *)
(***************************************************************************)
SlotInputs ==
    { [utcHour |-> h, isDST |-> f] : h \in 0..23, f \in { "true", "false", "omitted" } }

SlotInit ==
    /\ now = ScrapeInstant
    /\ scheduler = NewScheduler
    /\ lastOp = [op |-> "new", articles |-> << >>, postId |-> "", repeat |-> 1]
    /\ PosterIdle
    /\ ScraperIdle
    /\ call \in { [fn |-> "none", in |-> i, out |-> << >>] : i \in SlotInputs }

ApplyGetTimeSlotForUTCHour ==
    /\ call.fn = "none"
    /\ call' = [fn |-> "getTimeSlotForUTCHour", in |-> call.in,
                out |-> getTimeSlotForUTCHour(call.in.utcHour, call.in.isDST = "true")]
    /\ UNCHANGED << schedVars, posterVars, scraperVars >>

SlotNext == ApplyGetTimeSlotForUTCHour

SpecSlot == SlotInit /\ [][SlotNext]_vars

\* the UTC hour of a slot in the variant the flag selects
VariantHour(slot, dst) == IF dst THEN slot.utcHourDST ELSE slot.utcHour

\* C33: for every UTC hour and either flag, getTimeSlotForUTCHour returns
\* the one Time Slot whose UTC hour in the selected variant is that hour,
\* and null when there is none; no two slots share a UTC hour within a
\* variant.  The slot returned is the one of the civic hour that is 4 (DST)
\* or 5 (standard) hours behind.
C33_UniqueSlotPerHour ==
    call.fn = "getTimeSlotForUTCHour" =>
        LET dst == call.in.isDST = "true"
            matching == { i \in DOMAIN POSTING_SCHEDULE :
                            VariantHour(POSTING_SCHEDULE[i], dst) = call.in.utcHour }
        IN  /\ Cardinality(matching) <= 1
            /\ matching = {} <=> call.out = None
            /\ \A i \in matching :
                  /\ call.out = Some(POSTING_SCHEDULE[i])
                  /\ POSTING_SCHEDULE[i].hour =
                        call.in.utcHour - (IF dst THEN 4 ELSE 5)
                  /\ POSTING_SCHEDULE[i].postNumber = i

\* 13:00 UTC in daylight time is the hour of post 1
C33_Witness ==
    /\ call.fn = "getTimeSlotForUTCHour"
    /\ call.in = [utcHour |-> 13, isDST |-> "true"]
    /\ call.out # None
    /\ call.out[1].postNumber = 1


C35_OverflowInStrictOrder ==
    call.fn = "createTweetContent" =>
        LET post == call.in.post
            article == call.in.article
            articleContext ==
                IF call.in.summaryResult = None
                THEN [mainClaim |-> article.headline,
                      businessImplications |-> article.summary]
                ELSE call.in.summaryResult[1]
            hashtags == call.out.hashtags
            composed ==
                IF post.includeQuote
                THEN createQuoteTweet(article, articleContext, getQuoteForDay(now),
                                      hashtags, call.in.tenths)
                ELSE createStandardTweet(article, articleContext, call.out.tone,
                                         hashtags, call.in.tenths)
            content == SelectSeq(composed, LAMBDA line : line.kind # "hashtags")
            reduced == Append(content, TagsLine(Slice0(hashtags, 2)))
            excess == calculateTweetLength(reduced) - MAX_TWEET_LENGTH
            text == call.out.text
        IN  IF calculateTweetLength(composed) <= MAX_TWEET_LENGTH
            THEN text = composed
            ELSE IF calculateTweetLength(reduced) <= MAX_TWEET_LENGTH
            THEN text = reduced
            ELSE /\ Len(text) = Len(reduced)
                 /\ \A i \in 2..Len(reduced) : text[i] = reduced[i]
                 /\ text[1].kind = "text"
                 /\ TextLength(text[1].words) <=
                        Max(TextLength(reduced[1].words) - excess - 10, 3)


\* C36: retryPost(postId) on a failed post re-attempts the publishing of
\* that post: whatever slot the clock is in, an invocation of retryPost
\* makes an external publish call for no other post than the one postId
\* names.
C36_RetryPublishesNamedPost ==
    \A p \in DOMAIN inv :
        (inv[p].via = "retryPost" /\ inv[p].calledPublish)
        => inv[p].postId = inv[p].retryId


\* C37: every result scrapeCategory returns is consistent: success is
\* true exactly when articles is not empty, exactly when apiUsed is set,
\* exactly when error is not set; and the critical-failure alert was
\* issued (email.sendCriticalFailure was called) during the call exactly
\* when success is false.
C37_ResultConsistent ==
    lastScrape.returned = "returned" =>
        LET r == lastScrape.result
            alerted == Len(CallsOf("alert", lastScrape.calls)) > 0
        IN  /\ r.success <=> r.articles # << >>
            /\ r.success <=> r.apiUsed # ""
            /\ r.success <=> r.error = ""
            /\ alerted <=> ~r.success

\* a category failed totally with its alert issued, after another one
\* had succeeded
C37_Witness ==
    /\ lastScrape.returned = "returned"
    /\ ~lastScrape.result.success
    /\ Len(CallsOf("alert", lastScrape.calls)) = 1
    /\ \E c \in DOMAIN srun.categories :
          /\ srun.categories[c].success
          /\ srun.categories[c].articles # << >>


(***************************************************************************)
(* SpecNewsApiCount: one NewsApiService on which searchNews,               *)
(* getTopHeadlines, testConnection and resetRequestCount are called one    *)
(* after the other, in any order.  Every operation that sends an HTTP      *)
(* request counts it in requestCount.                                      *)
(***************************************************************************)
\* the searchNews calls made on the service next to the other operations
MaxCountedSearches == 2
\* the requests counted beyond maxRequestsPerDay
MaxOverrun == 2

\* getTopHeadlines up to fetch: the request is counted, whatever the count
GetTopHeadlines ==
    /\ newsapi.pc = "idle"
    /\ newsapi.requestCount < maxRequestsPerDay + MaxOverrun
    /\ newsapi' = [newsapi EXCEPT !.pc = "headlines", !.requestCount = @ + 1]
    /\ UNCHANGED << schedVars, posterVars, pureVars, scrape, lastScrape, srun >>

\* fetch returned to getTopHeadlines, which throws on an HTTP error and
\* returns the transformed articles, or none, otherwise
HeadlinesReturn ==
    /\ newsapi.pc = "headlines"
    /\ \E response \in NewsResponses :
        newsapi' = [newsapi EXCEPT !.pc = "idle"]
    /\ UNCHANGED << schedVars, posterVars, pureVars, scrape, lastScrape, srun >>

\* testConnection up to the fetch of its request: at the limit request
\* throws and testConnection returns false; below it the request is
\* counted and sent
TestConnection ==
    /\ newsapi.pc = "idle"
    /\ newsapi' = IF newsapi.requestCount >= maxRequestsPerDay
                  THEN newsapi
                  ELSE [newsapi EXCEPT !.pc = "test", !.requestCount = @ + 1]
    /\ UNCHANGED << schedVars, posterVars, pureVars, scrape, lastScrape, srun >>

\* fetch returned to the request of testConnection, which returns whether
\* the status of the body is ok, and false on an HTTP error
TestReturn ==
    /\ newsapi.pc = "test"
    /\ \E response \in NewsResponses :
        newsapi' = [newsapi EXCEPT !.pc = "idle"]
    /\ UNCHANGED << schedVars, posterVars, pureVars, scrape, lastScrape, srun >>

resetRequestCount(s) == [s EXCEPT !.requestCount = 0]

ResetRequestCount ==
    /\ newsapi.pc = "idle"
    /\ newsapi' = resetRequestCount(newsapi)
    /\ UNCHANGED << schedVars, posterVars, pureVars, scrape, lastScrape, srun >>

getRemainingRequests(s) == Max(0, maxRequestsPerDay - s.requestCount)

NewsApiCountNext ==
    \/ newsapi.searches < MaxCountedSearches /\ SearchNews(CATEGORIES[1])
    \/ Request
    \/ FetchReturn
    \/ GetTopHeadlines
    \/ HeadlinesReturn
    \/ TestConnection
    \/ TestReturn
    \/ ResetRequestCount

SpecNewsApiCount == NewsApiInit /\ [][NewsApiCountNext]_vars

\* C38: in every state of a NewsApiService, after any sequence of request,
\* searchNews, getTopHeadlines, testConnection and resetRequestCount,
\* requestCount is at most maxRequestsPerDay, and getRemainingRequests
\* returns exactly maxRequestsPerDay - requestCount.
C38_CountWithinQuota ==
    /\ newsapi.requestCount <= maxRequestsPerDay
    /\ getRemainingRequests(newsapi) = maxRequestsPerDay - newsapi.requestCount

====
